---- MODULE Spec2Model ----
(***************************************************************************)
(* A state-machine model of the AIDialogueForge server (server/routes.ts,  *)
(* server/storage.ts) and of the client's socket handling                  *)
(* (client/src/App.tsx).                                                   *)
(*                                                                         *)
(* Every await of the server code is a point where other handlers and      *)
(* other orchestration runs may interleave; an orchestration run is        *)
(* therefore a small program with a program counter, one action per await. *)
(* A request handler whose awaits cannot be observed by anybody else       *)
(* (it reads rows that no other handler changes in a way it would notice)  *)
(* is one action.                                                          *)
(*                                                                         *)
(* Conventions: a user id, a conversation id or a personality id of 0      *)
(* stands for JavaScript's undefined/null (serial ids start at 1, and the  *)
(* code tests these values for truthiness); the empty string stands for an *)
(* absent or empty session id.                                             *)
(***************************************************************************)
EXTENDS Integers, Sequences, FiniteSets, TLC

\* ------------------------------------------------------------------ bounds

\* Orchestration runs that may be launched.
MaxRuns == 1
\* Largest turnCount a start request asks for.
MaxTurns == 2
\* Conversations that may be created.
MaxConvs == 1
\* End requests that reach storage.endConversation, per conversation.
MaxEnds == 2
\* Completion calls the provider may fail, over all runs.
MaxFaults == 2
\* Agent steps (messages) over all runs.
MaxMessages == 6
\* Requests that reach a rate limiter.
MaxRequests == 5
\* WebSocket connections accepted.
MaxConnections == 3
\* Sends on sockets that throw.
MaxSendFailures == 1
\* The latest time of day looked at, in milliseconds.
MaxTime == 300000
\* Messages stored through /api/generate-response.
MaxGenerated == 1
\* Personalities created through the API.
MaxPersonalities == 1
\* The time of day up to which the clock moves in small steps, in milliseconds.
MaxJitter == 4500
\* Messages the server receives from its WebSocket clients.
MaxInbound == 2
\* Times the default catalog may be inserted.
MaxSeedings == 2
\* Pings sent by the heartbeat timers, over all sockets.
MaxPings == 2
\* Error events emitted on sockets.
MaxErrors == 1
\* Connections whose heartbeat is followed.
MaxBeating == 2
\* Conversations with a run each, executing side by side.
MaxIsolated == 2
\* Runs on one conversation.
MaxConcurrent == 2
\* Requests that reach a rate limiter while the keys are told apart.
MaxDecided == 6
\* Requests that reach a rate limiter in the life of a conversation.
MaxLifeRequests == 2

\* ------------------------------------------------------------- input sets

NoUser == 0
Users == {1, 2}
Callers == Users \cup {NoUser}
IPs == {"ip1", "ip2"}

\* Model identifiers: the two the default personas use and one the provider
\* does not know.
Llama8b == "llama3-8b-8192"
Llama70b == "llama3-70b-8192"

\* The agent id lists start requests carry. Ids 1..7 are the seeded personas,
\* 9 is an id no personality has.
AgentLists == {<<1, 2>>, <<1, 2, 3>>, <<4, 9, 1>>, <<9, 1>>, <<1>>}
TurnCounts == 0..MaxTurns


\* ---------------------------------------------------------------- state

VARIABLES
  now,                      \* Date.now(), in milliseconds
  personalities,            \* table agent_personalities: id -> row
  nextPersonalityId,        \* the table's serial
  conversations,            \* table conversations: the row of id i is conversations[i]
  messages,                 \* table messages, per conversation, in timestamp order
  runs,                     \* the orchestrateConversation calls made so far
  groqCatalog,              \* the models the completion provider serves
  cachedGroqModels,         \* routes.ts:242
  lastModelFetch,           \* routes.ts:243
  orchestrationRateLimits,  \* routes.ts:19, IP -> timestamps
  insightRateLimits,        \* routes.ts:18, IP -> timestamps
  events,                   \* per conversation: the writes and broadcastMessage calls, in order
  decisions,                \* the requests that reached a rate limiter and what it decided, in order
  faults,                   \* completion calls the provider has failed
  lastResponse,             \* the request handled last and the HTTP response it got
  sockets,                  \* the server's WebSocket objects, in order of connection
  connectedClients,         \* routes.ts:51, clientId -> socket
  uuids,                    \* crypto.randomUUID() calls made
  clients                   \* the browser side: App.tsx's effect state, per client

coreVars == <<now, personalities, nextPersonalityId, conversations, messages, runs,
              groqCatalog, cachedGroqModels, lastModelFetch, orchestrationRateLimits,
              insightRateLimits, events, decisions, faults, lastResponse>>

wsVars == <<sockets, connectedClients, uuids, clients>>

vars == <<coreVars, wsVars>>

Range(s) == {s[i] : i \in DOMAIN s}

NullTime == -1

\* The catalog initializeDefaultAgentPersonalities inserts: name and model of
\* each persona, in order. None has an owner.
DefaultPersonalities ==
  << [name |-> "NOVA", model |-> Llama70b],
     [name |-> "AXIOM", model |-> Llama70b],
     [name |-> "MUSE", model |-> Llama70b],
     [name |-> "SENTINEL", model |-> Llama8b],
     [name |-> "ECHO", model |-> Llama70b],
     [name |-> "NEXUS", model |-> Llama70b],
     [name |-> "ENIGMA", model |-> Llama70b] >>

\* What the provider may serve.
Catalogs == { <<Llama8b, Llama70b>>, <<"gemma-7b-it", Llama70b>>, << >> }

\* The list fetchGroqModels returns when the fetch fails.
HardcodedModels == <<Llama8b, Llama70b, "mixtral-8x7b-32768", "gemma-7b-it", "gemma-2b-it">>

MODEL_CACHE_TTL == 1800000

\* ------------------------------------------------------------- storage

\* storage.getConversation(id) finds a row.
HasConversation(id) == id \in DOMAIN conversations

\* storage.getAgentPersonality(id) finds a row.
HasPersonality(id) == id \in DOMAIN personalities

\* storage.createConversation: isActive defaults to true, status 'active'.
NewConversation(userId) ==
  [userId |-> userId, isActive |-> TRUE, status |-> "active", endedAt |-> NullTime,
   currentTurn |-> 0]

\* A variant of EndedRow that forgets the status column.
EndedRowKeepsStatus(row) == [row EXCEPT !.endedAt = now, !.isActive = FALSE]

\* A variant of EndedRow that leaves endedAt unset.
EndedRowNoEndedAt(row) == [row EXCEPT !.isActive = FALSE, !.status = "completed"]

\* storage.endConversation(id): an UPDATE ... WHERE id = id.
EndedRow(row) ==
  [row EXCEPT !.endedAt = now, !.isActive = FALSE, !.status = "completed"]

EndConversation(id) ==
  IF HasConversation(id)
  THEN [conversations EXCEPT ![id] = EndedRow(conversations[id])]
  ELSE conversations

\* One entry of a conversation's event log: a write ("persist", "ended") or a
\* broadcastMessage call (its event type), by run `run` (0: by a request
\* handler), for agent `agent` (0: none). active is the conversation's isActive
\* flag when it happened (for END_CONVERSATION, the flag of the row sent); pcs
\* is where the runs on the conversation stood when a request ended it.
CallInFlight(run) == run.pc \in {"completion", "fetchGroqModels", "fallback", "lastResort"}

RunsAt(id) == {runs[r].pc : r \in {x \in DOMAIN runs : runs[x].conv = id}}

Event(id, e, run, agent, active) ==
  [e |-> e, run |-> run, agent |-> agent, active |-> active,
   pcs |-> IF e = "ended" /\ run = 0 THEN RunsAt(id) ELSE {}]

Logged(log, id, evs) ==
  IF id \in DOMAIN log THEN [log EXCEPT ![id] = log[id] \o evs] ELSE log

\* A request and the reply of its handler. data says whether the body carries
\* stored rows; retryAfter is the 429 body's hint, in seconds; called says
\* whether the handler called the completion service, and active is the
\* isActive flag of the conversation it called it for.
Reply(endpoint, user, ip, target, status, data, retryAfter) ==
  [endpoint |-> endpoint, user |-> user, ip |-> ip, target |-> target, at |-> now,
   status |-> status, data |-> data, retryAfter |-> retryAfter, called |-> FALSE,
   active |-> FALSE]

Response(endpoint, user, ip, target, status, data) ==
  Reply(endpoint, user, ip, target, status, data, 0)

\* ------------------------------------------------------------ broadcast

\* wss.clients: a socket leaves the set when it is closed.
WssClients == {s \in DOMAIN sockets : sockets[s].readyState # "CLOSED"}

\* An event handed to ws.send on a socket; ok: the call did not throw.
Sent(type, sessionId, ok) == [type |-> type, sessionId |-> sessionId, ok |-> ok]

\* The sends that threw so far; their number is bounded by MaxSendFailures.
SendFailures ==
  Cardinality(UNION {{s} \X {k \in DOMAIN sockets[s].sent : ~sockets[s].sent[k].ok}
                       : s \in DOMAIN sockets})

MayFail(n) == SendFailures + n <= MaxSendFailures

\* A variant of BroadcastMessage in which a send that throws ends the loop:
\* the sockets after the first failing one are skipped.
BroadcastMessageUncaught(type) ==
  /\ \E failing \in SUBSET {s \in WssClients : sockets[s].readyState = "OPEN"} :
       /\ MayFail(Cardinality(failing))
       /\ sockets' =
            [s \in DOMAIN sockets |->
               IF s \in WssClients /\ sockets[s].readyState = "OPEN"
                    /\ \A f \in failing : s <= f
               THEN [sockets[s] EXCEPT !.sent = Append(@, Sent(type, "", s \notin failing))]
               ELSE sockets[s]]
  /\ UNCHANGED <<connectedClients, uuids, clients>>

\* broadcastMessage(wss, type, data): each tracked socket in OPEN state is
\* handed the event; a send that throws is caught and logged. failing: the
\* sockets whose send throws.
BroadcastMessage(type) ==
  /\ \E failing \in SUBSET {s \in WssClients : sockets[s].readyState = "OPEN"} :
       /\ MayFail(Cardinality(failing))
       /\ sockets' =
            [s \in DOMAIN sockets |->
               IF s \in WssClients /\ sockets[s].readyState = "OPEN"
               THEN [sockets[s] EXCEPT !.sent = Append(@, Sent(type, "", s \notin failing))]
               ELSE sockets[s]]
  /\ UNCHANGED <<connectedClients, uuids, clients>>

\* ---------------------------------------------------------- rate limiter

\* Requests let through per window, on both limited endpoints.
RateCap == 3
OrchestrationWindow == 5 * 60 * 1000
InsightWindow == 60 * 1000

\* new Map: get(ip) after "if (!has(ip)) set(ip, [])".
Requests(limits, ip) == IF ip \in DOMAIN limits THEN limits[ip] ELSE << >>

\* A variant of RecentRequests that keeps a request made exactly one window ago.
RecentRequestsInclusive(requests, window) ==
  SelectSeq(requests, LAMBDA time : now - time <= window)

\* requests.filter(time => now - time < window)
RecentRequests(requests, window) == SelectSeq(requests, LAMBDA time : now - time < window)

MapSet(map, key, value) ==
  [k \in DOMAIN map \cup {key} |-> IF k = key THEN value ELSE map[k]]

MapDelete(map, key) == [k \in DOMAIN map \ {key} |-> map[k]]

\* recentRequests.length >= 3
Limited(limits, ip, window) ==
  Len(RecentRequests(Requests(limits, ip), window)) >= RateCap

\* A variant of AfterLimit that records the time of a refused request as well.
AfterLimitRecordsRefused(limits, ip, window) ==
  MapSet(limits, ip, Append(RecentRequests(Requests(limits, ip), window), now))

\* The limiter map after the check: a refused request leaves the stored list
\* (created empty if the key is new); an allowed one stores the pruned list
\* with now appended.
AfterLimit(limits, ip, window) ==
  IF Limited(limits, ip, window)
  THEN MapSet(limits, ip, Requests(limits, ip))
  ELSE MapSet(limits, ip, Append(RecentRequests(Requests(limits, ip), window), now))

\* A variant of RetryAfter that rounds the remaining time down.
RetryAfterRoundedDown(limits, ip, window) ==
  ((window - (now - RecentRequests(Requests(limits, ip), window)[1])) \div 1000)

\* retryAfter of the 429 body: windowSeconds - Math.floor((now - recentRequests[0]) / 1000)
RetryAfter(limits, ip, window) ==
  (window \div 1000) - ((now - RecentRequests(Requests(limits, ip), window)[1]) \div 1000)

\* The limiter's decision on a request, logged to state its contract.
Decide(endpoint, ip, limits, window) ==
  Append(decisions, [endpoint |-> endpoint, ip |-> ip, at |-> now,
                     allowed |-> ~Limited(limits, ip, window),
                     retryAfter |-> IF Limited(limits, ip, window)
                                    THEN RetryAfter(limits, ip, window) ELSE 0])

\* ------------------------------------------------- conversation endpoints

\* POST /api/conversations. valid: the body passes insertConversationSchema.
PostConversation(user, ip, valid) ==
  /\ IF user = NoUser
     THEN /\ lastResponse' = Response("createConversation", user, ip, 0, 401, FALSE)
          /\ UNCHANGED <<conversations, messages, events, wsVars>>
     ELSE IF ~valid
     THEN /\ lastResponse' = Response("createConversation", user, ip, 0, 400, FALSE)
          /\ UNCHANGED <<conversations, messages, events, wsVars>>
     ELSE /\ conversations' = Append(conversations, NewConversation(user))
          /\ BroadcastMessage("NEW_CONVERSATION")
          /\ messages' = Append(messages, << >>)
          /\ events' = Append(events, <<Event(Len(conversations) + 1, "NEW_CONVERSATION", 0, 0, TRUE)>>)
          /\ lastResponse' =
               Response("createConversation", user, ip, Len(conversations) + 1, 201, TRUE)
  /\ UNCHANGED <<now, personalities, nextPersonalityId, runs, groqCatalog,
                 cachedGroqModels, lastModelFetch, orchestrationRateLimits,
                 insightRateLimits, decisions, faults>>

\* The same, for as long as fewer than MaxConvs conversations exist.
CreateConversation(user, ip, valid) ==
  /\ Len(conversations) < MaxConvs
  /\ PostConversation(user, ip, valid)

\* The ownership test of the conversation endpoints:
\* conversation.userId && conversation.userId !== userId
ForeignConversation(id, user) ==
  conversations[id].userId # NoUser /\ conversations[id].userId # user

\* POST /api/conversations/:id/end
EndConversationRequest(user, ip, id) ==
  /\ IF user = NoUser
     THEN /\ lastResponse' = Response("end", user, ip, id, 401, FALSE)
          /\ UNCHANGED <<conversations, events, wsVars>>
     ELSE IF ~HasConversation(id)
     THEN /\ lastResponse' = Response("end", user, ip, id, 404, FALSE)
          /\ UNCHANGED <<conversations, events, wsVars>>
     ELSE IF ForeignConversation(id, user)
     THEN /\ lastResponse' = Response("end", user, ip, id, 403, FALSE)
          /\ UNCHANGED <<conversations, events, wsVars>>
     ELSE /\ conversations' = EndConversation(id)
          /\ BroadcastMessage("END_CONVERSATION")
          /\ events' = Logged(events, id,
                              << Event(id, "ended", 0, 0, conversations[id].isActive),
                                 Event(id, "END_CONVERSATION", 0, 0, FALSE) >>)
          /\ lastResponse' = Response("end", user, ip, id, 200, TRUE)
  /\ UNCHANGED <<now, personalities, nextPersonalityId, messages, runs, groqCatalog,
                 cachedGroqModels, lastModelFetch, orchestrationRateLimits,
                 insightRateLimits, decisions, faults>>

\* --------------------------------------------------- orchestration start

NoContent == [model |-> "", att |-> 0]

\* The state of an orchestrateConversation call up to its first await.
NewRun(conversationId, agentPersonalityIds, turnCount) ==
  [conv |-> conversationId, ids |-> agentPersonalityIds, turnCount |-> turnCount,
   pc |-> "getConversation", k |-> 1, agents |-> << >>, turn |-> 0, idx |-> 1,
   history |-> << >>, calls |-> << >>, availableModels |-> << >>,
   fallbackModel |-> "", content |-> NoContent,
   readTurn |-> 0]

\* The body of a start request. turnCount defaults to 3 when absent; the
\* requests modelled always carry one.
StartBodies ==
  [conversationId : 0..(MaxConvs + 1), topic : {"", "T"},
   agentPersonalityIds : AgentLists, turnCount : TurnCounts]

\* !conversationId || !topic || !agentPersonalityIds || agentPersonalityIds.length < 2
InvalidStart(body) ==
  body.conversationId = 0 \/ body.topic = "" \/ Len(body.agentPersonalityIds) < 2

\* POST /api/conversations/orchestrate
OrchestrateRequest(user, ip, body) ==
  /\ IF user = NoUser
     THEN /\ lastResponse' = Response("orchestrate", user, ip, body.conversationId, 401, FALSE)
          /\ UNCHANGED <<orchestrationRateLimits, decisions, runs>>
     ELSE IF InvalidStart(body)
     THEN /\ lastResponse' = Response("orchestrate", user, ip, body.conversationId, 400, FALSE)
          /\ UNCHANGED <<orchestrationRateLimits, decisions, runs>>
     ELSE /\ orchestrationRateLimits' =
               AfterLimit(orchestrationRateLimits, ip, OrchestrationWindow)
          /\ decisions' = Decide("orchestrate", ip, orchestrationRateLimits, OrchestrationWindow)
          /\ IF Limited(orchestrationRateLimits, ip, OrchestrationWindow)
             THEN /\ lastResponse' =
                       Reply("orchestrate", user, ip, body.conversationId, 429, FALSE,
                             RetryAfter(orchestrationRateLimits, ip, OrchestrationWindow))
                  /\ runs' = runs
             ELSE IF ~HasConversation(body.conversationId)
             THEN /\ lastResponse' =
                       Response("orchestrate", user, ip, body.conversationId, 404, FALSE)
                  /\ runs' = runs
             ELSE IF ForeignConversation(body.conversationId, user)
             THEN /\ lastResponse' =
                       Response("orchestrate", user, ip, body.conversationId, 403, FALSE)
                  /\ runs' = runs
             ELSE /\ runs' = Append(runs, NewRun(body.conversationId,
                                                 body.agentPersonalityIds, body.turnCount))
                  /\ lastResponse' =
                       Response("orchestrate", user, ip, body.conversationId, 200, FALSE)
  /\ UNCHANGED <<now, personalities, nextPersonalityId, conversations, messages,
                 groqCatalog, cachedGroqModels, lastModelFetch, insightRateLimits, events,
                 faults, wsVars>>
\* ------------------------------------------------- completion provider

\* How a groq.chat.completions.create call may end: "ok", an error whose
\* message names the model, "not found" or "unavailable" ("model"), or any
\* other error ("other"). A model the provider does not serve is refused.
Outcomes(model) ==
  IF model \in Range(groqCatalog) THEN {"ok", "model", "other"} ELSE {"model", "other"}

\* A variant of ModelUnavailable that takes every error for a rejected model.
AnyError(outcome) == outcome # "ok"

\* error.message?.includes('model') || ...includes('not found') || ...includes('unavailable')
ModelUnavailable(outcome) == outcome = "model"

\* fetchGroqModels(): the cached list while fresh, else the fetched list
\* (fetched: the request succeeded), else the hard-coded list.
CacheFresh == Len(cachedGroqModels) > 0 /\ (now - lastModelFetch) < MODEL_CACHE_TTL

FetchGroqModels(fetched) ==
  IF CacheFresh THEN cachedGroqModels
  ELSE IF fetched THEN groqCatalog
  ELSE HardcodedModels

\* A variant of FallbackModel that does not consult the list.
FallbackModelUnvalidated(availableModels) == Llama8b

\* The fallback model chosen from the list fetchGroqModels returned.
FallbackModel(availableModels) ==
  IF Llama8b \in Range(availableModels) THEN Llama8b
  ELSE IF Len(availableModels) > 0 THEN availableModels[1]
  ELSE Llama8b

\* -------------------------------------------------- orchestrateConversation

Agent(run) == run.agents[run.idx]

SetRun(r, run) == runs' = [runs EXCEPT ![r] = run]

CallVars == <<now, personalities, nextPersonalityId, conversations, messages,
              groqCatalog, cachedGroqModels, lastModelFetch, orchestrationRateLimits,
              insightRateLimits, events, decisions, lastResponse, wsVars>>

RunVarsOnly == <<CallVars, faults>>

\* The provider's failures are counted, and bounded by MaxFaults.
Fault(outcome) ==
  /\ outcome # "ok" => faults < MaxFaults
  /\ faults' = IF outcome = "ok" THEN faults ELSE faults + 1

\* isActive of the row getConversation returns; FALSE when there is none.
Active(id) == HasConversation(id) /\ conversations[id].isActive

\* A variant of RunGetConversation for a handler that awaited the run: a run
\* that aborts turns the answer into an error.
RunGetConversationAwaited(r) ==
  /\ runs[r].pc = "getConversation"
  /\ SetRun(r, [runs[r] EXCEPT !.pc = IF Active(runs[r].conv)
                                      THEN "getAgentPersonality" ELSE "aborted"])
  /\ lastResponse' = IF Active(runs[r].conv) THEN lastResponse
                     ELSE [lastResponse EXCEPT !.status = 500]
  /\ UNCHANGED <<now, personalities, nextPersonalityId, conversations, messages,
                 groqCatalog, cachedGroqModels, lastModelFetch, orchestrationRateLimits,
                 insightRateLimits, events, decisions, faults, wsVars>>

\* A variant of RunGetConversation that gives way to a run already under way
\* on the conversation.
RunGetConversationExclusive(r) ==
  /\ runs[r].pc = "getConversation"
  /\ SetRun(r, [runs[r] EXCEPT !.pc =
                  IF Active(runs[r].conv)
                       /\ \A other \in DOMAIN runs \ {r} :
                            runs[other].conv = runs[r].conv =>
                              runs[other].pc \in {"aborted", "stopped", "failed", "done", "killed"}
                  THEN "getAgentPersonality" ELSE "aborted"])
  /\ UNCHANGED RunVarsOnly

\* A variant of RunGetConversation that does not test the row it gets.
RunGetConversationUntested(r) ==
  /\ runs[r].pc = "getConversation"
  /\ SetRun(r, [runs[r] EXCEPT !.pc = IF HasConversation(runs[r].conv)
                                      THEN "getAgentPersonality" ELSE "aborted"])
  /\ UNCHANGED RunVarsOnly

\* const conversation = await storage.getConversation(conversationId)
RunGetConversation(r) ==
  /\ runs[r].pc = "getConversation"
  /\ SetRun(r, [runs[r] EXCEPT !.pc = IF Active(runs[r].conv)
                                      THEN "getAgentPersonality" ELSE "aborted"])
  /\ UNCHANGED RunVarsOnly

\* What a personality row contributes to a run.
Snapshot(id) == [id |-> id, name |-> personalities[id].name, model |-> personalities[id].model]

\* Where the run goes once the agents are loaded or a turn is over: the next
\* turn's liveness check, or the end of the loop.
TurnOrEnd(run, turn) == IF turn < run.turnCount THEN "turnCheck" ELSE "endConversation"

\* A variant of RunGetAgentPersonality without the test of the number of
\* agents resolved.
RunGetAgentPersonalityUnchecked(r) ==
  /\ runs[r].pc = "getAgentPersonality"
  /\ LET run == runs[r]
         id == run.ids[run.k]
         agents == IF HasPersonality(id) THEN Append(run.agents, Snapshot(id))
                   ELSE run.agents
     IN SetRun(r, IF run.k < Len(run.ids)
                  THEN [run EXCEPT !.agents = agents, !.k = run.k + 1]
                  ELSE [run EXCEPT !.agents = agents, !.pc = TurnOrEnd(run, 0)])
  /\ UNCHANGED RunVarsOnly

\* One iteration of "for (const id of agentPersonalityIds)", and after the
\* last one the test agentPersonalities.length < 2.
RunGetAgentPersonality(r) ==
  /\ runs[r].pc = "getAgentPersonality"
  /\ LET run == runs[r]
         id == run.ids[run.k]
         agents == IF HasPersonality(id) THEN Append(run.agents, Snapshot(id))
                   ELSE run.agents
     IN SetRun(r, IF run.k < Len(run.ids)
                  THEN [run EXCEPT !.agents = agents, !.k = run.k + 1]
                  ELSE [run EXCEPT !.agents = agents,
                                   !.pc = IF Len(agents) < 2 THEN "aborted"
                                          ELSE TurnOrEnd(run, 0)])
  /\ UNCHANGED RunVarsOnly

\* A variant of RunTurnCheck that does not look at the flag.
RunTurnCheckBlind(r) ==
  /\ runs[r].pc = "turnCheck"
  /\ SetRun(r, [runs[r] EXCEPT !.pc = "getMessages", !.idx = 1])
  /\ UNCHANGED RunVarsOnly

\* The liveness check at the head of a turn.
RunTurnCheck(r) ==
  /\ runs[r].pc = "turnCheck"
  /\ SetRun(r, [runs[r] EXCEPT !.pc = IF Active(runs[r].conv) THEN "getMessages"
                                      ELSE "stopped",
                               !.idx = 1])
  /\ UNCHANGED RunVarsOnly

\* Agent steps begun so far: the messages stored and the steps under way.
InStep(run) == CallInFlight(run) \/ run.pc = "createMessage"

StepsBegun ==
  Cardinality(UNION {{c} \X DOMAIN messages[c] : c \in DOMAIN messages})
    + Cardinality({r \in DOMAIN runs : InStep(runs[r])})

\* A variant of RunGetMessages that loads the current agent's messages only
\* (storage.getMessagesByAgentId).
RunGetMessagesByAgentId(r) ==
  /\ runs[r].pc = "getMessages"
  /\ StepsBegun < MaxMessages
  /\ SetRun(r, [runs[r] EXCEPT
                  !.history = SelectSeq(messages[runs[r].conv],
                                        LAMBDA msg : msg.agentPersonalityId = Agent(runs[r]).id),
                  !.calls = << >>, !.availableModels = << >>, !.fallbackModel = "",
                  !.content = NoContent, !.pc = "completion"])
  /\ UNCHANGED RunVarsOnly

\* getMessagesForConversation resolves; the prompt is built from it and the
\* primary completion call is issued.
RunGetMessages(r) ==
  /\ runs[r].pc = "getMessages"
  /\ StepsBegun < MaxMessages
  /\ SetRun(r, [runs[r] EXCEPT !.history = messages[runs[r].conv], !.calls = << >>,
                               !.availableModels = << >>, !.fallbackModel = "",
                               !.content = NoContent, !.pc = "completion"])
  /\ UNCHANGED RunVarsOnly

Call(model, outcome) == [model |-> model, outcome |-> outcome]

\* The content of the completion the latest call returned.
Completed(run, model) == [model |-> model, att |-> Len(run.calls) + 1]

\* The primary call, with the persona's model, ends.
RunCompletion(r, outcome) ==
  /\ runs[r].pc = "completion"
  /\ outcome \in Outcomes(Agent(runs[r]).model)
  /\ LET run == runs[r]
         model == Agent(run).model
     IN SetRun(r, [run EXCEPT !.calls = Append(run.calls, Call(model, outcome)),
                              !.content = IF outcome = "ok" THEN Completed(run, model)
                                          ELSE NoContent,
                              !.pc = IF outcome = "ok" THEN "createMessage"
                                     ELSE IF ModelUnavailable(outcome) THEN "fetchGroqModels"
                                     ELSE "failed"])
  /\ Fault(outcome)
  /\ UNCHANGED CallVars

\* fetchGroqModels resolves, the fallback model is chosen and the retry issued.
RunFetchGroqModels(r, fetched) ==
  /\ runs[r].pc = "fetchGroqModels"
  /\ SetRun(r, [runs[r] EXCEPT !.availableModels = FetchGroqModels(fetched),
                               !.fallbackModel = FallbackModel(FetchGroqModels(fetched)),
                               !.pc = "fallback"])
  /\ IF ~CacheFresh /\ fetched
     THEN cachedGroqModels' = groqCatalog /\ lastModelFetch' = now
     ELSE UNCHANGED <<cachedGroqModels, lastModelFetch>>
  /\ UNCHANGED <<now, personalities, nextPersonalityId, conversations, messages,
                 groqCatalog, orchestrationRateLimits, insightRateLimits, events,
                 decisions, faults, lastResponse, wsVars>>

\* The retry with the fallback model ends; any failure of it leads to the
\* last-resort call.
RunFallback(r, outcome) ==
  /\ runs[r].pc = "fallback"
  /\ outcome \in Outcomes(runs[r].fallbackModel)
  /\ LET run == runs[r]
     IN SetRun(r, [run EXCEPT !.calls = Append(run.calls, Call(run.fallbackModel, outcome)),
                              !.content = IF outcome = "ok"
                                          THEN Completed(run, run.fallbackModel)
                                          ELSE NoContent,
                              !.pc = IF outcome = "ok" THEN "createMessage"
                                     ELSE "lastResort"])
  /\ Fault(outcome)
  /\ UNCHANGED CallVars

\* The last-resort call with "llama3-8b-8192" ends; its failure is thrown.
RunLastResort(r, outcome) ==
  /\ runs[r].pc = "lastResort"
  /\ outcome \in Outcomes(Llama8b)
  /\ LET run == runs[r]
     IN SetRun(r, [run EXCEPT !.calls = Append(run.calls, Call(Llama8b, outcome)),
                              !.content = IF outcome = "ok" THEN Completed(run, Llama8b)
                                          ELSE NoContent,
                              !.pc = IF outcome = "ok" THEN "createMessage" ELSE "failed"])
  /\ Fault(outcome)
  /\ UNCHANGED CallVars
\* The row storage.createMessage inserts for the run's current agent step.
NewMessage(r, run) ==
  [agentPersonalityId |-> Agent(run).id, content |-> run.content,
   turnNumber |-> run.turn + 1, run |-> r]

\* storage.createMessage, the INSERT. Both foreign keys must reference rows.
RunCreateMessage(r) ==
  /\ runs[r].pc = "createMessage"
  /\ LET run == runs[r]
     IN IF HasConversation(run.conv) /\ HasPersonality(Agent(run).id)
        THEN /\ messages' = [messages EXCEPT ![run.conv] = Append(@, NewMessage(r, run))]
             /\ events' = Logged(events, run.conv,
                                 <<Event(run.conv, "persist", r, Agent(run).id, Active(run.conv))>>)
             /\ SetRun(r, [run EXCEPT !.pc = "updateConversationTurn"])
        ELSE /\ SetRun(r, [run EXCEPT !.pc = "failed"])
             /\ UNCHANGED <<messages, events>>
  /\ UNCHANGED <<now, personalities, nextPersonalityId, conversations, groqCatalog,
                 cachedGroqModels, lastModelFetch, orchestrationRateLimits,
                 insightRateLimits, decisions, faults, lastResponse, wsVars>>

\* storage.updateConversationTurn, the read of currentTurn (the preceding
\* updateConversationActivity writes lastActivity only).
RunReadTurn(r) ==
  /\ runs[r].pc = "updateConversationTurn"
  /\ SetRun(r, [runs[r] EXCEPT !.readTurn = conversations[runs[r].conv].currentTurn,
                               !.pc = "writeTurn"])
  /\ UNCHANGED RunVarsOnly

\* A variant of RunWriteTurn whose UPDATE increments the column in place
\* (SET current_turn = current_turn + 1).
RunWriteTurnInPlace(r) ==
  /\ runs[r].pc = "writeTurn"
  /\ LET run == runs[r]
     IN /\ conversations' = [conversations EXCEPT ![run.conv].currentTurn = @ + 1]
        /\ events' = Logged(events, run.conv,
                            <<Event(run.conv, "NEW_MESSAGE", r, Agent(run).id, Active(run.conv))>>)
        /\ SetRun(r, [run EXCEPT !.pc = "liveCheck"])
  /\ BroadcastMessage("NEW_MESSAGE")
  /\ UNCHANGED <<now, personalities, nextPersonalityId, messages, groqCatalog,
                 cachedGroqModels, lastModelFetch, orchestrationRateLimits,
                 insightRateLimits, decisions, faults, lastResponse>>

\* storage.updateConversationTurn, the write; createMessage returns and the
\* run broadcasts NEW_MESSAGE, then starts the pacing delay.
RunWriteTurn(r) ==
  /\ runs[r].pc = "writeTurn"
  /\ LET run == runs[r]
     IN /\ conversations' = [conversations EXCEPT ![run.conv].currentTurn = run.readTurn + 1]
        /\ events' = Logged(events, run.conv,
                            <<Event(run.conv, "NEW_MESSAGE", r, Agent(run).id, Active(run.conv))>>)
        /\ SetRun(r, [run EXCEPT !.pc = "liveCheck"])
  /\ BroadcastMessage("NEW_MESSAGE")
  /\ UNCHANGED <<now, personalities, nextPersonalityId, messages, groqCatalog,
                 cachedGroqModels, lastModelFetch, orchestrationRateLimits,
                 insightRateLimits, decisions, faults, lastResponse>>

\* A variant of AfterAgent that leaves the loop after the first turn.
AfterAgentOneTurn(run) ==
  IF run.idx < Len(run.agents)
  THEN [run EXCEPT !.idx = run.idx + 1, !.pc = "getMessages"]
  ELSE [run EXCEPT !.turn = run.turn + 1, !.pc = "endConversation"]

\* Where a run whose liveness check passed goes: the next agent of the turn,
\* the next turn, or the end of the loop.
AfterAgent(run) ==
  IF run.idx < Len(run.agents)
  THEN [run EXCEPT !.idx = run.idx + 1, !.pc = "getMessages"]
  ELSE [run EXCEPT !.turn = run.turn + 1, !.pc = TurnOrEnd(run, run.turn + 1)]

\* A variant of RunLiveCheck that stops the run when any conversation is
\* found ended.
RunLiveCheckAnyEnded(r) ==
  /\ runs[r].pc = "liveCheck"
  /\ SetRun(r, IF \A id \in DOMAIN conversations : Active(id) THEN AfterAgent(runs[r])
               ELSE [runs[r] EXCEPT !.pc = "stopped"])
  /\ UNCHANGED RunVarsOnly

\* A variant of RunLiveCheck that does not look at the flag.
RunLiveCheckBlind(r) ==
  /\ runs[r].pc = "liveCheck"
  /\ SetRun(r, AfterAgent(runs[r]))
  /\ UNCHANGED RunVarsOnly

\* The delay is over and the liveness check after an agent's message reads
\* the conversation.
RunLiveCheck(r) ==
  /\ runs[r].pc = "liveCheck"
  /\ SetRun(r, IF Active(runs[r].conv) THEN AfterAgent(runs[r])
               ELSE [runs[r] EXCEPT !.pc = "stopped"])
  /\ UNCHANGED RunVarsOnly

\* await storage.endConversation(conversationId), after the last turn.
RunEndConversation(r) ==
  /\ runs[r].pc = "endConversation"
  /\ conversations' = EndConversation(runs[r].conv)
  /\ events' = Logged(events, runs[r].conv,
                      <<Event(runs[r].conv, "ended", r, 0, Active(runs[r].conv))>>)
  /\ SetRun(r, [runs[r] EXCEPT !.pc = "getFinal"])
  /\ UNCHANGED <<now, personalities, nextPersonalityId, messages, groqCatalog,
                 cachedGroqModels, lastModelFetch, orchestrationRateLimits,
                 insightRateLimits, decisions, faults, lastResponse, wsVars>>

\* finalConversation is read and broadcast as END_CONVERSATION.
RunBroadcastEnd(r) ==
  /\ runs[r].pc = "getFinal"
  /\ events' = Logged(events, runs[r].conv,
                      <<Event(runs[r].conv, "END_CONVERSATION", r, 0, Active(runs[r].conv))>>)
  /\ SetRun(r, [runs[r] EXCEPT !.pc = "done"])
  /\ BroadcastMessage("END_CONVERSATION")
  /\ UNCHANGED <<now, personalities, nextPersonalityId, conversations, messages,
                 groqCatalog, cachedGroqModels, lastModelFetch, orchestrationRateLimits,
                 insightRateLimits, decisions, faults, lastResponse>>

\* ------------------------------------------------------------- insights

\* The reply of POST /api/conversations/:id/insights; outcome is how the
\* completion call with 'llama3-8b-8192' ends, if the handler gets to it.
InsightsReply(user, ip, id, outcome) ==
  IF user = NoUser
  THEN Response("insights", user, ip, id, 401, FALSE)
  ELSE IF Limited(insightRateLimits, ip, InsightWindow)
  THEN Reply("insights", user, ip, id, 429, FALSE, RetryAfter(insightRateLimits, ip, InsightWindow))
  ELSE IF ~HasConversation(id)
  THEN Response("insights", user, ip, id, 404, FALSE)
  ELSE IF ForeignConversation(id, user)
  THEN Response("insights", user, ip, id, 403, FALSE)
  ELSE IF Len(messages[id]) = 0
  THEN Response("insights", user, ip, id, 400, FALSE)
  ELSE [Response("insights", user, ip, id, IF outcome = "ok" THEN 200 ELSE 500, FALSE)
          EXCEPT !.called = TRUE]

\* A variant of InsightsRequest that looks the conversation up before it
\* consults the limiter.
InsightsRequestLookupFirst(user, ip, id, outcome) ==
  LET found == user # NoUser /\ HasConversation(id) /\ ~ForeignConversation(id, user)
      reply == IF user = NoUser THEN Response("insights", user, ip, id, 401, FALSE)
               ELSE IF ~HasConversation(id) THEN Response("insights", user, ip, id, 404, FALSE)
               ELSE IF ForeignConversation(id, user)
               THEN Response("insights", user, ip, id, 403, FALSE)
               ELSE InsightsReply(user, ip, id, outcome)
  IN /\ lastResponse' = [reply EXCEPT !.active = Active(id)]
     /\ IF ~found
        THEN UNCHANGED <<insightRateLimits, decisions>>
        ELSE /\ insightRateLimits' = AfterLimit(insightRateLimits, ip, InsightWindow)
             /\ decisions' = Decide("insights", ip, insightRateLimits, InsightWindow)
     /\ IF reply.called
        THEN outcome \in Outcomes(Llama8b) /\ Fault(outcome)
        ELSE outcome = "ok" /\ faults' = faults
     /\ UNCHANGED <<now, personalities, nextPersonalityId, conversations, messages, runs,
                    groqCatalog, cachedGroqModels, lastModelFetch, orchestrationRateLimits,
                    events, wsVars>>

\* POST /api/conversations/:id/insights
InsightsRequest(user, ip, id, outcome) ==
  /\ lastResponse' = [InsightsReply(user, ip, id, outcome) EXCEPT !.active = Active(id)]
  /\ IF user = NoUser
     THEN UNCHANGED <<insightRateLimits, decisions>>
     ELSE /\ insightRateLimits' = AfterLimit(insightRateLimits, ip, InsightWindow)
          /\ decisions' = Decide("insights", ip, insightRateLimits, InsightWindow)
  /\ IF InsightsReply(user, ip, id, outcome).called
     THEN outcome \in Outcomes(Llama8b) /\ Fault(outcome)
     ELSE outcome = "ok" /\ faults' = faults
  /\ UNCHANGED <<now, personalities, nextPersonalityId, conversations, messages, runs,
                 groqCatalog, cachedGroqModels, lastModelFetch, orchestrationRateLimits,
                 events, wsVars>>

\* ---------------------------------------------------- /api/generate-response

\* The bodies of generate-response requests; previousMessages is given.
GenerateBodies ==
  [conversationId : 0..(MaxConvs + 1), agentPersonalityId : {1, 9}, topic : {"", "T"}]

\* !conversationId || !agentPersonalityId || !topic
InvalidGenerate(body) ==
  body.conversationId = 0 \/ body.agentPersonalityId = 0 \/ body.topic = ""

\* The completion calls the handler may make for a persona's model, list
\* being what fetchGroqModels returns: the primary call; after a rejection of
\* the model a call with the fallback model; after any failure of that a last
\* call with "llama3-8b-8192".
StepCalls(model, list) ==
  {<<Call(model, o)>> : o \in Outcomes(model) \ {"model"}}
    \cup {<<Call(model, "model"), Call(FallbackModel(list), o)>>
            : o \in Outcomes(FallbackModel(list)) \cap {"ok"}}
    \cup {<<Call(model, "model"), Call(FallbackModel(list), o2), Call(Llama8b, o3)>>
            : o2 \in Outcomes(FallbackModel(list)) \ {"ok"}, o3 \in Outcomes(Llama8b)}

Failures(calls) == Cardinality({k \in DOMAIN calls : calls[k].outcome # "ok"})

\* The checks before the completion call, and the status a failing one gives.
GenerateRefusal(user, body) ==
  IF user = NoUser THEN 401
  ELSE IF InvalidGenerate(body) THEN 400
  ELSE IF ~HasConversation(body.conversationId) THEN 404
  ELSE IF ForeignConversation(body.conversationId, user) THEN 403
  ELSE IF ~HasPersonality(body.agentPersonalityId) THEN 404
  ELSE 0

\* The row the handler stores: no turn number, no run.
GeneratedMessage(body, calls) ==
  [agentPersonalityId |-> body.agentPersonalityId,
   content |-> [model |-> calls[Len(calls)].model, att |-> Len(calls)],
   turnNumber |-> 0, run |-> 0]

\* POST /api/generate-response
GenerateResponse(user, ip, body, fetched, calls) ==
  LET id == body.conversationId
  IN /\ IF GenerateRefusal(user, body) # 0
        THEN /\ calls = << >> /\ ~fetched
             /\ lastResponse' = Response("generate", user, ip, id, GenerateRefusal(user, body), FALSE)
             /\ UNCHANGED <<conversations, messages, events, faults, cachedGroqModels,
                            lastModelFetch, wsVars>>
        ELSE /\ calls \in StepCalls(personalities[body.agentPersonalityId].model,
                                     FetchGroqModels(fetched))
             /\ faults + Failures(calls) <= MaxFaults
             /\ faults' = faults + Failures(calls)
             /\ Len(calls) = 1 => ~fetched
             /\ IF Len(calls) > 1 /\ ~CacheFresh /\ fetched
                THEN cachedGroqModels' = groqCatalog /\ lastModelFetch' = now
                ELSE UNCHANGED <<cachedGroqModels, lastModelFetch>>
             /\ IF calls[Len(calls)].outcome = "ok"
                THEN /\ messages' = [messages EXCEPT ![id] = Append(@, GeneratedMessage(body, calls))]
                     /\ conversations' = [conversations EXCEPT ![id].currentTurn = @ + 1]
                     /\ events' = Logged(events, id,
                                         << Event(id, "persist", 0, body.agentPersonalityId, Active(id)),
                                            Event(id, "NEW_MESSAGE", 0, body.agentPersonalityId, Active(id)) >>)
                     /\ BroadcastMessage("NEW_MESSAGE")
                     /\ lastResponse' = [Response("generate", user, ip, id, 200, TRUE)
                                           EXCEPT !.called = TRUE, !.active = Active(id)]
                ELSE /\ lastResponse' = [Response("generate", user, ip, id, 500, FALSE)
                                           EXCEPT !.called = TRUE, !.active = Active(id)]
                     /\ UNCHANGED <<conversations, messages, events, wsVars>>
     /\ UNCHANGED <<now, personalities, nextPersonalityId, runs, groqCatalog,
                    orchestrationRateLimits, insightRateLimits, decisions>>

\* ------------------------------------------------- /api/agent-personalities

\* GET /api/agent-personalities: no check of the caller.
ListPersonalities(user, ip) ==
  /\ lastResponse' = Response("listPersonalities", user, ip, 0, 200, TRUE)
  /\ UNCHANGED <<now, personalities, nextPersonalityId, conversations, messages, runs,
                 groqCatalog, cachedGroqModels, lastModelFetch, orchestrationRateLimits,
                 insightRateLimits, events, decisions, faults, wsVars>>

\* The row a valid POST body gives; userId is the caller's.
CustomPersonality(user) == [userId |-> user, name |-> "CUSTOM", model |-> "gemma-7b-it"]

\* POST /api/agent-personalities. valid: the body passes insertAgentPersonalitySchema.
CreatePersonality(user, ip, valid) ==
  /\ IF user = NoUser
     THEN /\ lastResponse' = Response("createPersonality", user, ip, 0, 401, FALSE)
          /\ UNCHANGED <<personalities, nextPersonalityId>>
     ELSE IF ~valid
     THEN /\ lastResponse' = Response("createPersonality", user, ip, 0, 400, FALSE)
          /\ UNCHANGED <<personalities, nextPersonalityId>>
     ELSE /\ personalities' = MapSet(personalities, nextPersonalityId, CustomPersonality(user))
          /\ nextPersonalityId' = nextPersonalityId + 1
          /\ lastResponse' = Response("createPersonality", user, ip, nextPersonalityId, 201, TRUE)
  /\ UNCHANGED <<now, conversations, messages, runs, groqCatalog, cachedGroqModels,
                 lastModelFetch, orchestrationRateLimits, insightRateLimits, events,
                 decisions, faults, wsVars>>

\* The ownership test of the personality endpoints:
\* existingPersonality.userId && existingPersonality.userId !== userId
ForeignPersonality(id, user) ==
  personalities[id].userId # NoUser /\ personalities[id].userId # user

\* The request bodies of PATCH: any subset of a row's columns.
PatchBodies == {[name |-> "RENAMED"], [userId |-> 2], [model |-> "gemma-7b-it"]}

\* UPDATE agent_personalities SET <body> WHERE id = id
Patched(row, body) == [f \in DOMAIN row |-> IF f \in DOMAIN body THEN body[f] ELSE row[f]]

\* PATCH /api/agent-personalities/:id
UpdatePersonality(user, ip, id, body) ==
  /\ IF user = NoUser
     THEN /\ lastResponse' = Response("updatePersonality", user, ip, id, 401, FALSE)
          /\ UNCHANGED personalities
     ELSE IF ~HasPersonality(id)
     THEN /\ lastResponse' = Response("updatePersonality", user, ip, id, 404, FALSE)
          /\ UNCHANGED personalities
     ELSE IF ForeignPersonality(id, user)
     THEN /\ lastResponse' = Response("updatePersonality", user, ip, id, 403, FALSE)
          /\ UNCHANGED personalities
     ELSE /\ personalities' = [personalities EXCEPT ![id] = Patched(@, body)]
          /\ lastResponse' = Response("updatePersonality", user, ip, id, 200, TRUE)
  /\ UNCHANGED <<now, nextPersonalityId, conversations, messages, runs, groqCatalog,
                 cachedGroqModels, lastModelFetch, orchestrationRateLimits,
                 insightRateLimits, events, decisions, faults, wsVars>>

\* A message refers to the personality: the DELETE violates the foreign key,
\* deleteAgentPersonality catches the error and returns false.
Referenced(id) ==
  \E c \in DOMAIN messages : \E k \in DOMAIN messages[c] :
    messages[c][k].agentPersonalityId = id

\* DELETE /api/agent-personalities/:id
DeletePersonality(user, ip, id) ==
  /\ IF user = NoUser
     THEN /\ lastResponse' = Response("deletePersonality", user, ip, id, 401, FALSE)
          /\ UNCHANGED personalities
     ELSE IF ~HasPersonality(id)
     THEN /\ lastResponse' = Response("deletePersonality", user, ip, id, 404, FALSE)
          /\ UNCHANGED personalities
     ELSE IF ForeignPersonality(id, user) \/ personalities[id].userId = NoUser
     THEN /\ lastResponse' = Response("deletePersonality", user, ip, id, 403, FALSE)
          /\ UNCHANGED personalities
     ELSE IF Referenced(id)
     THEN /\ lastResponse' = Response("deletePersonality", user, ip, id, 404, FALSE)
          /\ UNCHANGED personalities
     ELSE /\ personalities' = MapDelete(personalities, id)
          /\ lastResponse' = Response("deletePersonality", user, ip, id, 200, FALSE)
  /\ UNCHANGED <<now, nextPersonalityId, conversations, messages, runs, groqCatalog,
                 cachedGroqModels, lastModelFetch, orchestrationRateLimits,
                 insightRateLimits, events, decisions, faults, wsVars>>

\* ------------------------------------------------------------ WebSocket

\* The browser tabs running App.tsx, and the address each connects from.
Clients == {"c1"}
ClientIP(c) == "ip1"

\* The values crypto.randomUUID() returns, in order.
UUIDs == <<"uuid-1", "uuid-2", "uuid-3", "uuid-4", "uuid-5", "uuid-6">>

\* What a connection that is not App.tsx's puts after "sessionId=" in the
\* upgrade URL: text that URL decoding changes.
StrangerQueries == {"a+b"}
StrangerIPs == {"ip2"}

\* new URLSearchParams(query).get('sessionId'): "+" decodes to a space; the
\* other values used here are left as they are. "" is null or empty.
UrlDecode(raw) == IF raw = "a+b" THEN "a b" ELSE raw

\* useEffect's locals before connect() has run; localStorage holds no id.
\* connecting: connect() has made a socket that has not opened; delay: the
\* delay of the reconnect timer set last, in milliseconds; cleaned: the
\* effect's cleanup has run.
NewClient ==
  [sessionId |-> "", ws |-> 0, read |-> 0, reconnectAttempts |-> 0,
   reconnectTimeout |-> FALSE, mounted |-> FALSE, connecting |-> FALSE,
   keepAliveInterval |-> FALSE, delay |-> 0, cleaned |-> FALSE]

reconnectInterval == 3000

maxReconnectAttempts == 5

\* A variant of SessionId that ignores the id the client supplied.
SessionIdAlwaysFresh(supplied) == UUIDs[uuids + 1]

\* const sessionId = ...get('sessionId') || crypto.randomUUID()
SessionId(supplied) == IF supplied # "" THEN supplied ELSE UUIDs[uuids + 1]

\* The socket after the connection handler has run: tracked under its
\* clientId, heartbeat started, the welcome event handed to ws.send (ok: the
\* send did not throw). fresh: randomUUID was called.
NewSocket(ip, raw, ok) ==
  [ip |-> ip, query |-> raw, sessionId |-> SessionId(UrlDecode(raw)),
   fresh |-> UrlDecode(raw) = "", readyState |-> "OPEN", pingInterval |-> TRUE,
   received |-> << >>, pings |-> 0, pingFailed |-> FALSE, errors |-> 0, terminated |-> FALSE,
   sent |-> <<Sent("CONNECTION_ESTABLISHED", SessionId(UrlDecode(raw)), ok)>>]

\* clientId = `${clientIP}-${sessionId}`
ClientId(socket) == <<socket.ip, socket.sessionId>>

\* wss.on("connection"), for an upgrade request from ip with query value raw.
Connection(ip, raw, ok) ==
  /\ Len(sockets) < MaxConnections
  /\ ~ok => MayFail(1)
  /\ sockets' = Append(sockets, NewSocket(ip, raw, ok))
  /\ connectedClients' =
       MapSet(connectedClients, ClientId(NewSocket(ip, raw, ok)), Len(sockets) + 1)
  /\ uuids' = IF UrlDecode(raw) = "" THEN uuids + 1 ELSE uuids

\* App.tsx connect(), called at mount and by the reconnect timer: the stored
\* session id, if any, goes into the URL; the socket opens and onopen resets
\* the attempt counter.
ClientConnect(c) ==
  /\ ~clients[c].mounted \/ clients[c].reconnectTimeout
  /\ \E ok \in BOOLEAN : Connection(ClientIP(c), clients[c].sessionId, ok)
  /\ clients' = [clients EXCEPT ![c] =
                   [@ EXCEPT !.mounted = TRUE, !.reconnectTimeout = FALSE,
                             !.ws = Len(sockets) + 1, !.read = 0,
                             !.reconnectAttempts = 0, !.keepAliveInterval = TRUE]]
  /\ UNCHANGED coreVars

\* connect() makes a socket that does not open.
ClientConnectPending(c) ==
  /\ ~clients[c].mounted \/ clients[c].reconnectTimeout
  /\ clients' = [clients EXCEPT ![c] =
                   [@ EXCEPT !.mounted = TRUE, !.reconnectTimeout = FALSE,
                             !.ws = 0, !.connecting = TRUE]]
  /\ UNCHANGED <<coreVars, sockets, connectedClients, uuids>>

\* A connection by any other WebSocket client.
StrangerConnect ==
  /\ \E ip \in StrangerIPs, raw \in StrangerQueries, ok \in BOOLEAN : Connection(ip, raw, ok)
  /\ UNCHANGED <<coreVars, clients>>

\* ws.onmessage for the next event that arrived: a CONNECTION_ESTABLISHED
\* carrying a session id stores it. An event whose send threw never arrives.
ClientOnMessage(c) ==
  /\ clients[c].ws # 0
  /\ clients[c].read < Len(sockets[clients[c].ws].sent)
  /\ LET message == sockets[clients[c].ws].sent[clients[c].read + 1]
     IN clients' = [clients EXCEPT ![c] =
                      [@ EXCEPT !.read = @ + 1,
                                !.sessionId =
                                   IF message.ok /\ message.type = "CONNECTION_ESTABLISHED"
                                        /\ message.sessionId # ""
                                   THEN message.sessionId ELSE @]]
  /\ UNCHANGED <<coreVars, sockets, connectedClients, uuids>>

\* The text of the messages clients send: App.tsx's keep-alive, a message of
\* another type, the JSON text null, and text that is no JSON.
KeepAlive == "{\"type\":\"KEEP_ALIVE\"}"
Payloads == {KeepAlive, "{\"type\":\"OTHER\"}", "null", "not json"}

\* JSON.parse(message.toString()).type, inside the handler's try: threw says
\* that JSON.parse or the property access on null threw.
ParsedType(payload) ==
  IF payload \in {"null", "not json"} THEN [threw |-> TRUE, type |-> ""]
  ELSE IF payload = KeepAlive THEN [threw |-> FALSE, type |-> "KEEP_ALIVE"]
  ELSE [threw |-> FALSE, type |-> "OTHER"]

\* The messages the server has received so far.
Inbound ==
  Cardinality(UNION {{s} \X DOMAIN sockets[s].received : s \in DOMAIN sockets})

\* A variant of OnMessage whose handler has no try/catch: a payload that
\* makes it throw takes the connection down.
OnMessageUncaught(s, payload, ok) ==
  /\ sockets[s].readyState = "OPEN"
  /\ ok
  /\ sockets' = [sockets EXCEPT ![s] =
                   IF ParsedType(payload).threw
                   THEN [@ EXCEPT !.received = Append(@, payload), !.readyState = "CLOSED",
                                  !.pingInterval = FALSE]
                   ELSE IF ParsedType(payload).type = "KEEP_ALIVE"
                   THEN [@ EXCEPT !.received = Append(@, payload),
                                  !.sent = Append(@, Sent("KEEP_ALIVE_ACK", "", ok))]
                   ELSE [@ EXCEPT !.received = Append(@, payload)]]
  /\ UNCHANGED <<coreVars, connectedClients, uuids, clients>>

\* ws.on("message") for a payload arriving on socket s: a KEEP_ALIVE is
\* answered with KEEP_ALIVE_ACK on the same socket (ok: the send did not
\* throw); everything else, an exception in the handler included, is dropped.
OnMessage(s, payload, ok) ==
  /\ sockets[s].readyState = "OPEN"
  /\ IF ~ParsedType(payload).threw /\ ParsedType(payload).type = "KEEP_ALIVE"
     THEN /\ ~ok => MayFail(1)
          /\ sockets' = [sockets EXCEPT ![s] =
                           [@ EXCEPT !.received = Append(@, payload),
                                     !.sent = Append(@, Sent("KEEP_ALIVE_ACK", "", ok))]]
     ELSE /\ ok
          /\ sockets' = [sockets EXCEPT ![s].received = Append(@, payload)]
  /\ UNCHANGED <<coreVars, connectedClients, uuids, clients>>

\* Either side starts the closing handshake.
SocketClosing(s) ==
  /\ sockets[s].readyState = "OPEN"
  /\ sockets' = [sockets EXCEPT ![s].readyState = "CLOSING"]
  /\ UNCHANGED <<coreVars, connectedClients, uuids, clients>>

\* The connection is gone; ws.on("close") clears the heartbeat and deletes
\* the registry entry of the socket's clientId.
SocketClosed(s) ==
  /\ sockets[s].readyState \in {"OPEN", "CLOSING"}
  /\ sockets' = [sockets EXCEPT ![s].readyState = "CLOSED", ![s].pingInterval = FALSE]
  /\ connectedClients' = MapDelete(connectedClients, ClientId(sockets[s]))
  /\ UNCHANGED <<coreVars, uuids, clients>>

\* ws.terminate(): the socket is destroyed, and its close event follows; on a
\* closed socket it does nothing.
Terminate(socket) ==
  IF socket.readyState = "CLOSED" THEN socket
  ELSE [socket EXCEPT !.readyState = "CLOSING", !.terminated = TRUE]

\* The pings sent and the error events emitted so far.
Pings == Cardinality(UNION {{s} \X (1..sockets[s].pings) : s \in DOMAIN sockets})

Errors == Cardinality(UNION {{s} \X (1..sockets[s].errors) : s \in DOMAIN sockets})

\* A variant of PingInterval that only logs a ping that throws.
PingIntervalLogsOnly(s, threw) ==
  /\ sockets[s].pingInterval
  /\ IF sockets[s].readyState = "OPEN"
     THEN /\ Pings < MaxPings
          /\ sockets' = [sockets EXCEPT ![s] =
                           IF threw THEN [@ EXCEPT !.pingFailed = TRUE]
                           ELSE [@ EXCEPT !.pings = @ + 1]]
          /\ UNCHANGED connectedClients
     ELSE /\ ~threw
          /\ sockets' = [sockets EXCEPT ![s].pingInterval = FALSE]
          /\ connectedClients' = MapDelete(connectedClients, ClientId(sockets[s]))
  /\ UNCHANGED <<coreVars, uuids, clients>>

\* A tick of socket s's pingInterval timer. On an OPEN socket ws.ping() is
\* called (threw: it throws, and the socket, still OPEN, is terminated); on
\* any other the timer is cleared and the registry entry of the socket's
\* clientId deleted.
PingInterval(s, threw) ==
  /\ sockets[s].pingInterval
  /\ IF sockets[s].readyState = "OPEN"
     THEN /\ Pings < MaxPings
          /\ sockets' = [sockets EXCEPT ![s] =
                           IF threw THEN Terminate([@ EXCEPT !.pingFailed = TRUE])
                           ELSE [@ EXCEPT !.pings = @ + 1]]
          /\ UNCHANGED connectedClients
     ELSE /\ ~threw
          /\ sockets' = [sockets EXCEPT ![s].pingInterval = FALSE]
          /\ connectedClients' = MapDelete(connectedClients, ClientId(sockets[s]))
  /\ UNCHANGED <<coreVars, uuids, clients>>

\* ws.on("error") on socket s: an OPEN socket is handed CONNECTION_ERROR (ok:
\* the send did not throw); the handler does nothing else.
OnError(s, ok) ==
  /\ sockets[s].readyState \in {"OPEN", "CLOSING"}
  /\ Errors < MaxErrors
  /\ IF sockets[s].readyState = "OPEN"
     THEN /\ ~ok => MayFail(1)
          /\ sockets' = [sockets EXCEPT ![s] =
                           [@ EXCEPT !.errors = @ + 1,
                                     !.sent = Append(@, Sent("CONNECTION_ERROR", "", ok))]]
     ELSE /\ ok
          /\ sockets' = [sockets EXCEPT ![s].errors = @ + 1]
  /\ UNCHANGED <<coreVars, connectedClients, uuids, clients>>

\* A variant of ConnectionCleanupInterval that looks for closed sockets only.
ConnectionCleanupIntervalClosedOnly ==
  /\ sockets' = [s \in DOMAIN sockets |->
                   IF s \in WssClients /\ sockets[s].readyState = "CLOSED"
                   THEN Terminate(sockets[s]) ELSE sockets[s]]
  /\ UNCHANGED <<coreVars, connectedClients, uuids, clients>>

\* A tick of connectionCleanupInterval: every tracked socket that is not OPEN
\* is terminated.
ConnectionCleanupInterval ==
  /\ sockets' = [s \in DOMAIN sockets |->
                   IF s \in WssClients /\ sockets[s].readyState # "OPEN"
                   THEN Terminate(sockets[s]) ELSE sockets[s]]
  /\ UNCHANGED <<coreVars, connectedClients, uuids, clients>>

Min(a, b) == IF a < b THEN a ELSE b

\* A variant of OnClose that counts the attempts but always schedules one more.
OnCloseUnbounded(client) ==
  [client EXCEPT !.ws = 0, !.connecting = FALSE, !.keepAliveInterval = FALSE,
                 !.reconnectAttempts = Min(@ + 1, maxReconnectAttempts),
                 !.reconnectTimeout = TRUE,
                 !.delay = reconnectInterval * Min(2, client.reconnectAttempts + 1)]

\* The body of ws.onclose in App.tsx: the keep-alive interval is cleared and a
\* reconnect is scheduled while attempts remain.
OnClose(client) ==
  IF client.reconnectAttempts < maxReconnectAttempts
  THEN [client EXCEPT !.ws = 0, !.connecting = FALSE, !.keepAliveInterval = FALSE,
                      !.reconnectAttempts = @ + 1, !.reconnectTimeout = TRUE,
                      !.delay = reconnectInterval * Min(2, client.reconnectAttempts + 1)]
  ELSE [client EXCEPT !.ws = 0, !.connecting = FALSE, !.keepAliveInterval = FALSE]

\* ws.onclose for a socket that was open.
ClientOnClose(c) ==
  /\ clients[c].ws # 0
  /\ sockets[clients[c].ws].readyState = "CLOSED"
  /\ clients' = [clients EXCEPT ![c] = OnClose(@)]
  /\ UNCHANGED <<coreVars, sockets, connectedClients, uuids>>

\* ws.onclose for a socket that never opened.
ClientOnCloseUnopened(c) ==
  /\ clients[c].connecting
  /\ clients' = [clients EXCEPT ![c] = OnClose(@)]
  /\ UNCHANGED <<coreVars, sockets, connectedClients, uuids>>

\* The cleanup of the effect: ws.close() on the socket made last, which
\* starts the closing handshake of an open socket; the reconnect timer and
\* the keep-alive interval are cleared.
ClientCleanup(c) ==
  /\ clients[c].mounted /\ ~clients[c].cleaned
  /\ clients' = [clients EXCEPT ![c] =
                   [@ EXCEPT !.cleaned = TRUE, !.reconnectTimeout = FALSE,
                             !.keepAliveInterval = FALSE]]
  /\ sockets' = IF clients[c].ws # 0 /\ sockets[clients[c].ws].readyState = "OPEN"
                THEN [sockets EXCEPT ![clients[c].ws].readyState = "CLOSING"]
                ELSE sockets
  /\ UNCHANGED <<coreVars, connectedClients, uuids>>

\* ------------------------------------------------------------ the system

\* The rows initializeDefaultAgentPersonalities leaves in an empty store.
SeededPersonalities ==
  [id \in 1..Len(DefaultPersonalities) |->
     [userId |-> NoUser, name |-> DefaultPersonalities[id].name,
      model |-> DefaultPersonalities[id].model]]

\* initializeDefaultAgentPersonalities on a store whose serial stands at
\* serial: an empty store gets the catalog, in order; any other is left alone.
InitializeDefaultAgentPersonalities(store, serial) ==
  IF DOMAIN store = {}
  THEN [id \in serial..(serial + Len(DefaultPersonalities) - 1) |->
          SeededPersonalities[id - serial + 1]]
  ELSE store

\* The process is stopped and started again: the tables stay; the limiter
\* maps, the model cache and the registry start empty; the connections are
\* gone and the runs under way are lost; registerRoutes seeds the personas.
Restart ==
  /\ personalities' = InitializeDefaultAgentPersonalities(personalities, nextPersonalityId)
  /\ nextPersonalityId' =
       IF DOMAIN personalities' = DOMAIN personalities THEN nextPersonalityId
       ELSE nextPersonalityId + Len(DefaultPersonalities)
  /\ orchestrationRateLimits' = << >>
  /\ insightRateLimits' = << >>
  /\ cachedGroqModels' = << >>
  /\ lastModelFetch' = 0
  /\ runs' = [r \in DOMAIN runs |->
               IF runs[r].pc \in {"aborted", "stopped", "failed", "done", "killed"}
               THEN runs[r] ELSE [runs[r] EXCEPT !.pc = "killed"]]
  /\ sockets' = [s \in DOMAIN sockets |->
                  [sockets[s] EXCEPT !.readyState = "CLOSED", !.pingInterval = FALSE]]
  /\ connectedClients' = << >>
  /\ lastResponse' = Response("restart", NoUser, "", 0, 0, FALSE)
  /\ UNCHANGED <<now, conversations, messages, groqCatalog, events, decisions, faults,
                 uuids, clients>>

\* The server after registerRoutes, with a provider serving some catalog.
Init ==
  /\ now = 0
  /\ personalities = SeededPersonalities
  /\ nextPersonalityId = Len(DefaultPersonalities) + 1
  /\ conversations = << >>
  /\ messages = << >>
  /\ runs = << >>
  /\ groqCatalog \in Catalogs
  /\ cachedGroqModels = << >>
  /\ lastModelFetch = 0
  /\ orchestrationRateLimits = << >>
  /\ insightRateLimits = << >>
  /\ events = << >>
  /\ decisions = << >>
  /\ faults = 0
  /\ lastResponse = Response("none", NoUser, "", 0, 0, FALSE)
  /\ sockets = << >>
  /\ connectedClients = << >>
  /\ uuids = 0
  /\ clients = [c \in Clients |-> NewClient]

\* The steps of run r: each is the completion of the await the run stands at.
RunStep(r) ==
  \/ RunGetConversation(r)
  \/ RunGetAgentPersonality(r)
  \/ RunTurnCheck(r)
  \/ RunGetMessages(r)
  \/ \E outcome \in {"ok", "model", "other"} :
       \/ RunCompletion(r, outcome)
       \/ RunFallback(r, outcome)
       \/ RunLastResort(r, outcome)
  \/ \E fetched \in BOOLEAN : RunFetchGroqModels(r, fetched)
  \/ RunCreateMessage(r)
  \/ RunReadTurn(r)
  \/ RunWriteTurn(r)
  \/ RunLiveCheck(r)
  \/ RunEndConversation(r)
  \/ RunBroadcastEnd(r)

\* End requests handled for conversation id so far.
EndRequests(id) ==
  IF id \in DOMAIN events
  THEN Len(SelectSeq(events[id], LAMBDA ev : ev.e = "ended" /\ ev.run = 0))
  ELSE 0

\* The orchestration core: one user on one address creates conversations,
\* starts runs and ends conversations while the runs execute.
CreateByOwner == \E valid \in BOOLEAN : CreateConversation(1, "ip1", valid)

EndByOwner ==
  \E id \in DOMAIN conversations :
    EndRequests(id) < MaxEnds /\ EndConversationRequest(1, "ip1", id)

StartByOwner ==
  \E body \in StartBodies :
    Len(runs) < MaxRuns /\ Len(decisions) < MaxRequests /\ OrchestrateRequest(1, "ip1", body)

Run == \E r \in DOMAIN runs : RunStep(r)

Next == CreateByOwner \/ EndByOwner \/ StartByOwner \/ Run

Spec == Init /\ [][Next]_vars

\* The socket layer: clients connect, read, lose their connection and
\* reconnect while conversations are created and ended.
Connect == \E c \in Clients : ClientConnect(c)

Receive == \E c \in Clients : ClientOnMessage(c)

Closing == \E s \in DOMAIN sockets : SocketClosing(s)

Closed == \E s \in DOMAIN sockets : SocketClosed(s)

Reconnect == \E c \in Clients : ClientOnClose(c)

NextWS ==
  \/ Connect \/ StrangerConnect \/ Receive \/ Closing \/ Closed \/ Reconnect
  \/ CreateByOwner \/ EndByOwner

\* The provider's catalog plays no part in the socket layer.
InitServing == Init /\ groqCatalog = <<Llama8b, Llama70b>>

SpecWS == InitServing /\ [][NextWS]_vars

\* The rate limiters: time passes while start and insights requests arrive
\* from two addresses. No conversation exists, so a request let through ends
\* at the not-found answer.
Ticks == {60000, 299999}

Tick == \E d \in Ticks : now + d <= MaxTime /\ now' = now + d /\ UNCHANGED <<
          personalities, nextPersonalityId, conversations, messages, runs, groqCatalog,
          cachedGroqModels, lastModelFetch, orchestrationRateLimits, insightRateLimits,
          events, decisions, faults, lastResponse, wsVars>>

StartLimited ==
  \E ip \in IPs :
    /\ Len(decisions) < MaxRequests
    /\ OrchestrateRequest(1, ip, [conversationId |-> 1, topic |-> "T",
                                  agentPersonalityIds |-> <<1, 2>>, turnCount |-> 1])

InsightsLimited ==
  /\ Len(decisions) < MaxRequests
  /\ InsightsRequest(1, "ip1", 1, "ok")

NextRL == Tick \/ StartLimited \/ InsightsLimited

SpecRL == InitServing /\ [][NextRL]_vars

\* The limiters' keys: start requests from two addresses and insights requests
\* from one of them arrive while time passes, enough of them for one key to be
\* refused and the others to be served after it.
StartKeyed ==
  \E ip \in IPs :
    /\ Len(decisions) < MaxDecided
    /\ OrchestrateRequest(1, ip, [conversationId |-> 1, topic |-> "T",
                                  agentPersonalityIds |-> <<1, 2>>, turnCount |-> 1])

InsightsKeyed ==
  /\ Len(decisions) < MaxDecided
  /\ InsightsRequest(1, "ip1", 1, "ok")

NextKeyed == Tick \/ StartKeyed \/ InsightsKeyed

SpecKeyed == InitServing /\ [][NextKeyed]_vars

\* Restarts: user 2 takes seeded personas over and deletes them, and the
\* server is restarted at any point.
TakeOver ==
  \E id \in DOMAIN SeededPersonalities : UpdatePersonality(2, "ip1", id, [userId |-> 2])

Remove == \E id \in DOMAIN SeededPersonalities : DeletePersonality(2, "ip1", id)

Reboot ==
  /\ nextPersonalityId <= (MaxSeedings - 1) * Len(DefaultPersonalities) + 1
  /\ Restart

NextBoot == TakeOver \/ Remove \/ Reboot

SpecBoot == InitServing /\ [][NextBoot]_vars

\* Failures of a run: user 1 starts a run over the agents [1, 2] and, while it
\* runs, takes persona 2 over and deletes it, so that the INSERT of a message
\* of agent 2 violates the foreign key; the provider fails calls as it likes.
StartPair ==
  \E turnCount \in 1..MaxTurns :
    /\ Len(runs) < MaxRuns /\ Len(decisions) < MaxRequests
    /\ OrchestrateRequest(1, "ip1", [conversationId |-> 1, topic |-> "T",
                                     agentPersonalityIds |-> <<1, 2>>,
                                     turnCount |-> turnCount])

Withdraw ==
  \/ UpdatePersonality(1, "ip1", 2, [userId |-> 1])
  \/ DeletePersonality(1, "ip1", 2)

NextFailures == CreateByOwner \/ StartPair \/ Run \/ Withdraw

SpecFailures == Init /\ [][NextFailures]_vars

\* Inbound messages: clients connect, send payloads of every kind and lose
\* their connections.
Receives ==
  \E s \in DOMAIN sockets, payload \in Payloads, ok \in BOOLEAN :
    Inbound < MaxInbound /\ OnMessage(s, payload, ok)

NextInbound == Connect \/ StrangerConnect \/ Receives \/ Closing \/ Closed

SpecInbound == InitServing /\ [][NextInbound]_vars

\* Reconnection: the client connects, with and without success, loses its
\* connections and reconnects.
Dial == \E c \in Clients : ClientConnectPending(c)

Unopened == \E c \in Clients : ClientOnCloseUnopened(c)

NextReconnect == Connect \/ Dial \/ Unopened \/ Closed \/ Reconnect

SpecReconnect == InitServing /\ [][NextReconnect]_vars

\* Teardown: the same, with the component unmounted at any point.
Cleanup == \E c \in Clients : ClientCleanup(c)

NextTeardown == Connect \/ Dial \/ Unopened \/ Closed \/ Reconnect \/ Cleanup

SpecTeardown == InitServing /\ [][NextTeardown]_vars

\* Heartbeats and the sweep: connections are made, their timers tick, error
\* events arrive, closing handshakes begin and close events arrive.
Beat ==
  \E s \in DOMAIN sockets, threw \in BOOLEAN : PingInterval(s, threw)

Failing == \E s \in DOMAIN sockets, ok \in BOOLEAN : OnError(s, ok)

Sweep == ConnectionCleanupInterval

Arrive ==
  /\ Len(sockets) < MaxBeating
  /\ \E ip \in StrangerIPs, raw \in StrangerQueries : Connection(ip, raw, TRUE)
  /\ UNCHANGED <<coreVars, clients>>

NextHeartbeat == Arrive \/ Closing \/ Closed \/ Beat \/ Failing \/ Sweep

SpecHeartbeat == InitServing /\ [][NextHeartbeat]_vars

\* The timers fire for as long as they are set, and the close event of a
\* destroyed socket arrives; when a closing handshake ends, or whether a
\* connection is closed at all, is the peer's matter.
Sockets == 1..MaxBeating

FairHeartbeat ==
  /\ SpecHeartbeat
  /\ WF_vars(Sweep)
  /\ \A s \in Sockets :
       /\ WF_vars(IF s \in DOMAIN sockets
                  THEN \E threw \in BOOLEAN : PingInterval(s, threw) ELSE FALSE)
       /\ WF_vars(IF s \in DOMAIN sockets
                  THEN sockets[s].terminated /\ SocketClosed(s) ELSE FALSE)

\* The rate limiters' retry hint: the clock moves in steps that are no whole
\* seconds while requests arrive, and a refused caller may wait for as long
\* as the 429 body said.
Jitter == {1500}

Drift == \E d \in Jitter : now + d <= MaxJitter /\ now' = now + d /\ UNCHANGED <<
           personalities, nextPersonalityId, conversations, messages, runs, groqCatalog,
           cachedGroqModels, lastModelFetch, orchestrationRateLimits, insightRateLimits,
           events, decisions, faults, lastResponse, wsVars>>

RetryWait ==
  /\ lastResponse.status = 429
  /\ now + lastResponse.retryAfter * 1000 <= 2 * MaxTime + MaxJitter
  /\ now' = now + lastResponse.retryAfter * 1000
  /\ UNCHANGED <<personalities, nextPersonalityId, conversations, messages, runs,
                 groqCatalog, cachedGroqModels, lastModelFetch, orchestrationRateLimits,
                 insightRateLimits, events, decisions, faults, lastResponse, wsVars>>

NextRetry == Drift \/ RetryWait \/ StartLimited \/ InsightsLimited

SpecRetry == InitServing /\ [][NextRetry]_vars

\* The conversation endpoints, called by both users and by callers without a
\* session: conversations are created and ended, messages generated one
\* request at a time, insights asked for.
CreateByAnyone == \E user \in Callers, valid \in BOOLEAN : CreateConversation(user, "ip1", valid)

EndByAnyone ==
  \E user \in Callers, id \in 1..(MaxConvs + 1) :
    EndRequests(id) < MaxEnds /\ EndConversationRequest(user, "ip1", id)

Generated ==
  Cardinality(UNION {{c} \X {k \in DOMAIN messages[c] : messages[c][k].run = 0}
                       : c \in DOMAIN messages})

GenerateByAnyone ==
  /\ Generated < MaxGenerated
  /\ \E user \in Callers, body \in GenerateBodies :
       IF GenerateRefusal(user, body) # 0
       THEN GenerateResponse(user, "ip1", body, FALSE, << >>)
       ELSE \E fetched \in BOOLEAN :
              \E calls \in StepCalls(personalities[body.agentPersonalityId].model,
                                     FetchGroqModels(fetched)) :
                GenerateResponse(user, "ip1", body, fetched, calls)

InsightsByAnyone ==
  /\ Len(decisions) < MaxRequests
  /\ \E user \in Callers, id \in 1..(MaxConvs + 1), outcome \in {"ok", "model", "other"} :
       InsightsRequest(user, "ip1", id, outcome)

NextAPI == CreateByAnyone \/ EndByAnyone \/ GenerateByAnyone \/ InsightsByAnyone

SpecAPI == Init /\ [][NextAPI]_vars

\* The order of checks: start and insights requests of every caller, with
\* bodies that pass and bodies that fail validation, for conversations of the
\* caller, of another user and of nobody.
OrderBodies ==
  {body \in StartBodies : body.agentPersonalityIds \in {<<1, 2>>, <<1>>} /\ body.turnCount = 1}

StartByAnyone ==
  /\ Len(decisions) < MaxRequests
  /\ \E user \in Callers, body \in OrderBodies : OrchestrateRequest(user, "ip1", body)

NextOrder == CreateByAnyone \/ StartByAnyone \/ InsightsByAnyone

SpecOrder == InitServing /\ [][NextOrder]_vars

\* Histories: while a run over the agents [1, 2] executes, its owner has one
\* more message generated in the conversation through /api/generate-response.
GenerateByOwner ==
  /\ Generated < MaxGenerated
  /\ \E fetched \in BOOLEAN :
       \E calls \in StepCalls(personalities[1].model, FetchGroqModels(fetched)) :
         GenerateResponse(1, "ip1", [conversationId |-> 1, agentPersonalityId |-> 1,
                                     topic |-> "T"], fetched, calls)

NextHistory == CreateByOwner \/ StartPair \/ Run \/ GenerateByOwner

SpecHistory == Init /\ [][NextHistory]_vars

\* Isolation: the owner creates conversations, starts one run on each, over
\* the same two agents in different order, and ends conversations while the
\* runs execute side by side.
IsolatedAgents(id) == IF id % 2 = 1 THEN <<1, 2>> ELSE <<2, 1>>

CreateEach == Len(conversations) < MaxIsolated /\ PostConversation(1, "ip1", TRUE)

StartEach ==
  \E id \in DOMAIN conversations, turnCount \in 1..MaxTurns :
    /\ \A r \in DOMAIN runs : runs[r].conv # id
    /\ Len(decisions) < MaxRequests
    /\ OrchestrateRequest(1, "ip1", [conversationId |-> id, topic |-> "T",
                                     agentPersonalityIds |-> IsolatedAgents(id),
                                     turnCount |-> turnCount])

\* The provider answers every call.
RunServed == Run /\ faults' = faults

EndFirst == EndRequests(1) < 1 /\ EndConversationRequest(1, "ip1", 1)

NextIsolation == CreateEach \/ StartEach \/ RunServed \/ EndFirst

SpecIsolation == InitServing /\ [][NextIsolation]_vars

\* Repeated starts: the owner sends start requests for one conversation, over
\* the agents [1, 2] and for one turn.
StartAgain ==
  /\ Len(runs) < MaxConcurrent
  /\ Len(decisions) < MaxRequests
  /\ OrchestrateRequest(1, "ip1", [conversationId |-> 1, topic |-> "T",
                                   agentPersonalityIds |-> <<1, 2>>, turnCount |-> 1])

NextRepeated == CreateByOwner \/ StartAgain \/ RunServed

SpecRepeated == InitServing /\ [][NextRepeated]_vars

\* The life of a conversation: its owner creates it, ends it, starts a run on
\* it, has a message generated in it and asks for insights, in any order.
InsightsByOwner ==
  /\ Len(decisions) < MaxLifeRequests
  /\ InsightsRequest(1, "ip1", 1, "ok")

StartInLife ==
  /\ Len(runs) < MaxRuns /\ Len(decisions) < MaxLifeRequests
  /\ OrchestrateRequest(1, "ip1", [conversationId |-> 1, topic |-> "T",
                                   agentPersonalityIds |-> <<1, 2>>, turnCount |-> 1])

GenerateServed == GenerateByOwner /\ faults' = faults

NextLife ==
  \/ CreateByOwner \/ EndByOwner \/ StartInLife \/ RunServed \/ GenerateServed
  \/ InsightsByOwner

SpecLife == InitServing /\ [][NextLife]_vars

\* The personality endpoints, called by both users and by callers without a
\* session, on a seeded persona, on the first created one and on an id no
\* row has.
PersonalityTargets == {1, Len(DefaultPersonalities) + 1, Len(DefaultPersonalities) + MaxPersonalities + 1}

ListByAnyone == \E user \in Callers : ListPersonalities(user, "ip1")

CreatePersonalityByAnyone ==
  \E user \in Callers, valid \in BOOLEAN :
    /\ nextPersonalityId <= Len(DefaultPersonalities) + MaxPersonalities
    /\ CreatePersonality(user, "ip1", valid)

UpdateByAnyone ==
  \E user \in Callers, id \in PersonalityTargets, body \in PatchBodies :
    UpdatePersonality(user, "ip1", id, body)

DeleteByAnyone ==
  \E user \in Callers, id \in PersonalityTargets : DeletePersonality(user, "ip1", id)

NextCatalog == ListByAnyone \/ CreatePersonalityByAnyone \/ UpdateByAnyone \/ DeleteByAnyone

SpecCatalog == InitServing /\ [][NextCatalog]_vars

\* =================================================================== claims

\* The messages run r has persisted, in order, and their agents.
RunMessages(r) ==
  IF HasConversation(runs[r].conv)
  THEN SelectSeq(messages[runs[r].conv], LAMBDA m : m.run = r)
  ELSE << >>

AgentIds(ms) == [k \in DOMAIN ms |-> ms[k].agentPersonalityId]

\* C1. Turn order: with resolved agents a_1..a_N and turnCount T, the k-th
\* message a run persists belongs to agent a_(((k-1) mod N)+1), and a run that
\* went through all its turns has persisted exactly N*T messages.
TurnOrder ==
  \A r \in DOMAIN runs :
    LET ms == RunMessages(r)
        N == Len(runs[r].agents)
    IN /\ \A k \in DOMAIN ms :
            ms[k].agentPersonalityId = runs[r].agents[((k - 1) % N) + 1].id
       /\ runs[r].pc = "done" => Len(ms) = N * runs[r].turnCount

\* A run over agents [1,2,3] with turnCount 2 is done, having persisted 1,2,3,1,2,3.
TurnOrderWitness ==
  \E r \in DOMAIN runs :
    /\ runs[r].pc = "done"
    /\ runs[r].ids = <<1, 2, 3>>
    /\ runs[r].turnCount = 2
    /\ AgentIds(RunMessages(r)) = <<1, 2, 3, 1, 2, 3>>

\* The positions of a conversation's log where an end request cleared the flag.
StopPoints(id) ==
  {i \in DOMAIN events[id] :
     events[id][i].e = "ended" /\ events[id][i].run = 0 /\ events[id][i].active}

\* The entries of log after position i that satisfy Test.
After(log, i, Test(_)) == {j \in DOMAIN log : j > i /\ Test(log[j])}

IsMessage(ev) == ev.e \in {"persist", "NEW_MESSAGE"}
IsEnd(ev) == ev.e = "END_CONVERSATION"

\* Where a run stands between two agent calls: the previous message is
\* stored and broadcast and the next completion call is not yet issued.
BetweenCalls == {"liveCheck", "turnCheck", "getMessages"}

Brief(ev) == <<ev.e, ev.run, ev.agent>>

\* The agent of the k-th step of a run that goes through all its turns.
StepAgent(run, k) == run.agents[((k - 1) % Len(run.agents)) + 1].id

\* The log of a conversation that run r alone took from creation to its end:
\* per agent step the INSERT and the NEW_MESSAGE broadcast, then the ending
\* write and the END_CONVERSATION broadcast.
CompletedLog(r) ==
  LET run == runs[r]
      steps == Len(run.agents) * run.turnCount
  IN <<<<"NEW_CONVERSATION", 0, 0>>>>
       \o [k \in 1..(2 * steps) |->
             <<IF k % 2 = 1 THEN "persist" ELSE "NEW_MESSAGE", r, StepAgent(run, (k + 1) \div 2)>>]
       \o << <<"ended", r, 0>>, <<"END_CONVERSATION", r, 0>> >>

\* Run r is the only run on its conversation and no end request reached it.
Undisturbed(r) ==
  /\ HasConversation(runs[r].conv)
  /\ EndRequests(runs[r].conv) = 0
  /\ \A q \in DOMAIN runs : runs[q].conv = runs[r].conv => q = r

ConversationCompleted(row) == ~row.isActive /\ row.status = "completed" /\ row.endedAt # NullTime

\* C3. End-to-end completion: an undisturbed run that is done has persisted
\* one message per agent and turn in agent order, then moved the conversation
\* from active to completed (isActive false, status 'completed', endedAt set),
\* and only then broadcast END_CONVERSATION, once, carrying the ended row.
\* Until the ending write the conversation stays active.
EndToEnd ==
  \A r \in DOMAIN runs :
    Undisturbed(r) =>
      LET id == runs[r].conv
          log == events[id]
          row == conversations[id]
      IN /\ runs[r].pc = "done" =>
              /\ [k \in DOMAIN log |-> Brief(log[k])] = CompletedLog(r)
              /\ AgentIds(messages[id]) =
                   [k \in 1..(Len(runs[r].agents) * runs[r].turnCount) |-> StepAgent(runs[r], k)]
              /\ log[Len(log) - 1].active
              /\ ~log[Len(log)].active
              /\ ConversationCompleted(row)
         /\ runs[r].pc = "getFinal" => ConversationCompleted(row) /\ After(log, 0, IsEnd) = {}
         /\ runs[r].pc \notin {"getFinal", "done"} =>
              row.isActive /\ row.status = "active" /\ row.endedAt = NullTime
                /\ After(log, 0, IsEnd) = {}

\* The run over agents [1,2] with turnCount 1, every completion call
\* succeeding, is done: two messages, by 1 then 2, and the conversation completed.
EndToEndWitness ==
  \E r \in DOMAIN runs :
    /\ Undisturbed(r)
    /\ runs[r].pc = "done"
    /\ runs[r].ids = <<1, 2>>
    /\ runs[r].turnCount = 1
    /\ faults = 0
    /\ AgentIds(messages[runs[r].conv]) = <<1, 2>>
    /\ conversations[runs[r].conv].status = "completed"
    /\ Cardinality(After(events[runs[r].conv], 0, IsEnd)) = 1

\* ------------------------------------------------------------------- C4

\* The run stands after the completion calls of its current agent step.
StepStored(run) == run.pc \in {"updateConversationTurn", "writeTurn", "liveCheck"}

IssuedBefore(s) == {sockets[q].sessionId : q \in {x \in 1..(s - 1) : sockets[x].fresh}}

\* C6. Reconnection continuity: on every connection the first event the
\* server sends is CONNECTION_ESTABLISHED, carrying the connection's session
\* id and sent once; a connection that supplied a previously issued id gets
\* that same id back; a fresh id is generated only when no id was supplied,
\* and differs from every id in use before. The id a client holds is the id
\* of the last CONNECTION_ESTABLISHED it has read.
ReconnectionContinuity ==
  /\ \A s \in DOMAIN sockets :
       LET socket == sockets[s]
       IN /\ Len(socket.sent) >= 1
          /\ socket.sent[1].type = "CONNECTION_ESTABLISHED"
          /\ socket.sent[1].sessionId = socket.sessionId
          /\ socket.sessionId # ""
          /\ \A k \in 2..Len(socket.sent) : socket.sent[k].type # "CONNECTION_ESTABLISHED"
          /\ socket.query \in IssuedBefore(s) =>
               socket.sessionId = socket.query /\ ~socket.fresh
          /\ socket.fresh =>
               /\ socket.query = ""
               /\ \A q \in 1..(s - 1) : sockets[q].sessionId # socket.sessionId
  /\ \A c \in Clients :
       /\ clients[c].sessionId # "" =>
            \E s \in DOMAIN sockets :
              sockets[s].sent[1].ok /\ sockets[s].sessionId = clients[c].sessionId
       /\ (clients[c].ws # 0 /\ sockets[clients[c].ws].query # "") =>
            sockets[clients[c].ws].sessionId = sockets[clients[c].ws].query

\* A client got a fresh id on its first connection, lost the connection,
\* reconnected with the id, and has read the same id from the new connection.
ReconnectionContinuityWitness ==
  \E c \in Clients : \E s \in DOMAIN sockets :
    /\ clients[c].ws # 0 /\ s < clients[c].ws
    /\ sockets[s].fresh
    /\ sockets[s].readyState = "CLOSED"
    /\ sockets[clients[c].ws].query = sockets[s].sessionId
    /\ ~sockets[clients[c].ws].fresh
    /\ sockets[clients[c].ws].sent[1] = Sent("CONNECTION_ESTABLISHED", sockets[s].sessionId, TRUE)
    /\ clients[c].read >= 1
    /\ clients[c].sessionId = sockets[s].sessionId

\* ------------------------------------------------------------------- C7

BroadcastTypes == {"NEW_CONVERSATION", "NEW_MESSAGE", "END_CONVERSATION"}

\* The broadcastMessage calls of a step: the broadcast entries it appends to
\* the conversations' logs.
Broadcasts ==
  UNION {{events'[id][k] :
            k \in {x \in DOMAIN events'[id] :
                     /\ id \in DOMAIN events => x > Len(events[id])
                     /\ events'[id][x].e \in BroadcastTypes}}
           : id \in DOMAIN events'}

\* C7. Every broadcastMessage call hands the event to every socket that is in
\* OPEN state at the time of the call, whether or not another socket's send
\* throws, and to no other socket; and the caller goes on as if every send
\* had succeeded: the request handler answers with success, the run is at its
\* next step.
BroadcastFanOut ==
  [][\A ev \in Broadcasts :
       /\ DOMAIN sockets' = DOMAIN sockets
       /\ \A s \in DOMAIN sockets :
            IF sockets[s].readyState = "OPEN"
            THEN \E ok \in BOOLEAN :
                   sockets'[s] = [sockets[s] EXCEPT !.sent = Append(@, Sent(ev.e, "", ok))]
            ELSE sockets'[s] = sockets[s]
       /\ ev.run = 0 => lastResponse'.status \in {200, 201}
       /\ ev.run # 0 => runs'[ev.run].pc \in {"liveCheck", "done"}]_vars

\* A broadcast found two sockets open and one closing: the send on the first
\* open socket threw, the second open socket still got the event, the
\* closing one got nothing, and the handler answered 201.
BroadcastFanOutWitness ==
  \E a, b, c \in DOMAIN sockets :
    /\ a < b /\ c < b
    /\ sockets[a].sent[Len(sockets[a].sent)] = Sent("NEW_CONVERSATION", "", FALSE)
    /\ sockets[b].sent[Len(sockets[b].sent)] = Sent("NEW_CONVERSATION", "", TRUE)
    /\ sockets[c].readyState = "CLOSING"
    /\ Len(sockets[c].sent) = 1
    /\ lastResponse.endpoint = "createConversation"
    /\ lastResponse.status = 201

\* ------------------------------------------------------------------- C5

Window(endpoint) == IF endpoint = "orchestrate" THEN OrchestrationWindow ELSE InsightWindow

SameKey(d, e) == d.endpoint = e.endpoint /\ d.ip = e.ip

\* The earlier allowed requests of decision k's key that lie strictly within
\* the window before it.
AllowedWithin(k) ==
  {j \in 1..(k - 1) :
     /\ SameKey(decisions[j], decisions[k])
     /\ decisions[j].allowed
     /\ decisions[k].at - decisions[j].at < Window(decisions[k].endpoint)}

KeyDecisions(endpoint, ip) ==
  SelectSeq(decisions, LAMBDA d : d.endpoint = endpoint /\ d.ip = ip)

InsightsRequireEnded ==
  (lastResponse.endpoint = "insights" /\ lastResponse.active)
    => (lastResponse.status >= 400 /\ ~lastResponse.called)

\* C9. System-provided personalities are immutable and non-deletable: every
\* seeded persona stays in the store with the fields, owner included, it was
\* seeded with, whatever update and delete requests users make.
SystemPersonalitiesImmutable ==
  \A id \in DOMAIN SeededPersonalities :
    HasPersonality(id) /\ personalities[id] = SeededPersonalities[id]

\* The stored data the endpoints guard.
Stores == <<personalities, conversations, messages>>

\* The request just answered addressed a personality of another user.
CrossUser(response) ==
  /\ response.endpoint \in {"updatePersonality", "deletePersonality"}
  /\ response.user # NoUser
  /\ HasPersonality(response.target)
  /\ ForeignPersonality(response.target, response.user)

\* C10. Every mutating or listing endpoint rejects a caller without a session,
\* returning and changing no stored data; a user addressing a personality
\* owned by another user gets 403, with no change to any conversation,
\* message or personality and no broadcast.
AccessControl ==
  [][ /\ lastResponse'.user = NoUser
           => (lastResponse'.status = 401 /\ ~lastResponse'.data /\ UNCHANGED Stores)
      /\ CrossUser(lastResponse')
           => (lastResponse'.status = 403 /\ UNCHANGED <<Stores, sockets>>) ]_vars

\* ------------------------------------------------------------------ C11

\* endedAt is set.
Ended(row) == row.endedAt # NullTime

\* C11. Conversation invariant: a conversation's endedAt is set if and only
\* if its isActive flag is false; a created conversation has endedAt unset and
\* isActive true, and ending sets both together.
EndedIffInactive ==
  \A id \in DOMAIN conversations : Ended(conversations[id]) <=> ~conversations[id].isActive

\* A conversation was ended by a request while a run was on it, and the run
\* has stopped: endedAt is set and the flag is false.
EndedIffInactiveWitness ==
  \E id \in DOMAIN conversations : \E r \in DOMAIN runs :
    /\ runs[r].conv = id /\ runs[r].pc = "stopped"
    /\ EndRequests(id) >= 1
    /\ Ended(conversations[id]) /\ ~conversations[id].isActive
\* ------------------------------------------------------------------ C12

\* The step handles a start request and answers it with success.
Acknowledged ==
  /\ Len(decisions') > Len(decisions)
  /\ lastResponse'.endpoint = "orchestrate"
  /\ lastResponse'.status = 200

\* C12. The orchestration run is detached: the start request is answered
\* with success in the step that launches the run, when the run stands before
\* its first await and has made no completion call; a run is launched by an
\* acknowledged start request only; and no step of a run touches the answer,
\* whatever the run's outcome.
DetachedRun ==
  [][ /\ Len(runs') > Len(runs) <=> Acknowledged
      /\ Len(runs') > Len(runs) =>
           /\ Len(runs') = Len(runs) + 1
           /\ runs'[Len(runs')].pc = "getConversation"
           /\ runs'[Len(runs')].calls = << >>
           /\ runs'[Len(runs')].conv = lastResponse'.target
           /\ \A r \in DOMAIN runs : runs'[r] = runs[r]
      /\ (Len(runs') = Len(runs) /\ runs' # runs) => lastResponse' = lastResponse ]_vars

\* A run's completion call failed and ended the run; the answer its start
\* request got is the success acknowledgement.
DetachedRunWitness ==
  \E r \in DOMAIN runs :
    /\ runs[r].pc = "failed"
    /\ Len(runs[r].calls) >= 1
    /\ lastResponse.endpoint = "orchestrate"
    /\ lastResponse.target = runs[r].conv
    /\ lastResponse.status = 200
\* ------------------------------------------------------------------ C13

\* The decision after k on k's key, if any.
NextOfKey(k) ==
  {j \in DOMAIN decisions :
     /\ j > k /\ SameKey(decisions[j], decisions[k])
     /\ \A i \in (k + 1)..(j - 1) : ~SameKey(decisions[i], decisions[k])}

\* C13. A refused request's retryAfter, in seconds, lies between 1 and the
\* window's length, and the next request of the same key, made retryAfter
\* seconds after the refusal or later, is allowed; the answer to a refused
\* request is the rate-limit error carrying that hint.
RetryAfterSound ==
  /\ \A k \in DOMAIN decisions :
       ~decisions[k].allowed =>
         /\ decisions[k].retryAfter >= 1
         /\ decisions[k].retryAfter * 1000 <= Window(decisions[k].endpoint)
         /\ \A j \in NextOfKey(k) :
              decisions[j].at >= decisions[k].at + decisions[k].retryAfter * 1000
                => decisions[j].allowed
  /\ (decisions # << >> /\ lastResponse.at = decisions[Len(decisions)].at
        /\ lastResponse.endpoint = decisions[Len(decisions)].endpoint
        /\ lastResponse.ip = decisions[Len(decisions)].ip) =>
       /\ lastResponse.status = 429 <=> ~decisions[Len(decisions)].allowed
       /\ lastResponse.retryAfter = decisions[Len(decisions)].retryAfter

\* Three start requests of one address were let through, the first 1.5 s
\* before the fourth, which was refused with retryAfter 299; the caller came
\* back exactly 299 s later and was let through.
RetryAfterSoundWitness ==
  \E k \in DOMAIN decisions : \E j \in NextOfKey(k) :
    /\ decisions[k].endpoint = "orchestrate"
    /\ ~decisions[k].allowed
    /\ decisions[k].retryAfter = 299
    /\ decisions[j].at = decisions[k].at + 299000
    /\ decisions[j].allowed
\* ------------------------------------------------------------------ C14

\* The sockets that receive a message in the step.
Receiving == {s \in DOMAIN sockets : Len(sockets'[s].received) > Len(sockets[s].received)}

\* C14. Inbound client messages: a KEEP_ALIVE arriving on an open connection
\* is answered with exactly one KEEP_ALIVE_ACK, handed to that connection
\* only; any other payload, parseable or not, is answered with nothing; and
\* whatever arrives, the connection stays open, keeps its registry entry and
\* its heartbeat, and no other connection is touched.
InboundMessages ==
  [][\A s \in Receiving :
       LET payload == sockets'[s].received[Len(sockets'[s].received)]
       IN /\ sockets[s].readyState = "OPEN"
          /\ sockets'[s].received = Append(sockets[s].received, payload)
          /\ IF payload = KeepAlive
             THEN \E ok \in BOOLEAN :
                    sockets'[s].sent = Append(sockets[s].sent, Sent("KEEP_ALIVE_ACK", "", ok))
             ELSE sockets'[s].sent = sockets[s].sent
          /\ sockets'[s].readyState = "OPEN"
          /\ sockets'[s].pingInterval /\ sockets[s].pingInterval
          /\ connectedClients' = connectedClients
          /\ \A q \in DOMAIN sockets : q # s => sockets'[q] = sockets[q] ]_vars

\* A connection got text that is no JSON and then a KEEP_ALIVE: it holds the
\* welcome event and one acknowledgement, is open, tracked and pinged, while
\* another open connection got nothing beyond its welcome event.
InboundMessagesWitness ==
  \E s, q \in DOMAIN sockets :
    /\ s # q
    /\ sockets[s].received = <<"not json", KeepAlive>>
    /\ [k \in DOMAIN sockets[s].sent |-> sockets[s].sent[k].type]
         = <<"CONNECTION_ESTABLISHED", "KEEP_ALIVE_ACK">>
    /\ sockets[s].readyState = "OPEN" /\ sockets[s].pingInterval
    /\ ClientId(sockets[s]) \in DOMAIN connectedClients
    /\ connectedClients[ClientId(sockets[s])] = s
    /\ sockets[q].readyState = "OPEN" /\ Len(sockets[q].sent) = 1
\* ------------------------------------------------------------------ C20

\* C20. Connection registry lifecycle: every entry of the registry holds
\* the handle of a socket that is not closed and whose key is the entry's,
\* and every open connection has an entry under its key; so no connection's
\* close removes the entry of a connection that is still open.
RegistryLifecycle ==
  /\ \A key \in DOMAIN connectedClients :
       /\ connectedClients[key] \in DOMAIN sockets
       /\ sockets[connectedClients[key]].readyState # "CLOSED"
       /\ ClientId(sockets[connectedClients[key]]) = key
  /\ \A s \in DOMAIN sockets :
       sockets[s].readyState = "OPEN" => ClientId(sockets[s]) \in DOMAIN connectedClients
\* ------------------------------------------------------------------ C15

\* C15. Default personas are seeded exactly once: after the first boot no
\* step, a restart least of all, adds an ownerless persona to the store.
\* (Every row the API adds belongs to its creator.)
SeededExactlyOnce ==
  [][\A id \in DOMAIN personalities' \ DOMAIN personalities :
       personalities'[id].userId # NoUser]_vars
\* ------------------------------------------------------------------ C16

\* The run is still checking its preconditions.
Starting(run) == run.pc \in {"getConversation", "getAgentPersonality"}

\* The given agent ids that resolve to existing personalities.
Resolving(run) == {k \in DOMAIN run.ids : HasPersonality(run.ids[k])}

\* The entries run r left in its conversation's log.
RunEvents(r, log) ==
  IF runs[r].conv \in DOMAIN log
  THEN {k \in DOMAIN log[runs[r].conv] : log[runs[r].conv][k].run = r}
  ELSE {}

\* C16. Start preconditions: a run aborts exactly when the conversation it
\* loads is missing or not active, or when fewer than 2 of the given agent ids
\* resolve; while it checks its preconditions and when it aborts it makes no
\* completion call, persists no message, sends no broadcast and leaves every
\* conversation as it is.
StartPreconditions ==
  [][\A r \in DOMAIN runs :
       (Starting(runs[r]) /\ runs'[r] # runs[r]) =>
         /\ UNCHANGED <<conversations, messages, events, sockets, faults>>
         /\ runs'[r].calls = << >>
         /\ RunEvents(r, events') = {}
         /\ runs'[r].pc = "aborted" <=>
              \/ runs[r].pc = "getConversation" /\ ~Active(runs[r].conv)
              \/ /\ runs[r].pc = "getAgentPersonality"
                 /\ runs[r].k = Len(runs[r].ids)
                 /\ Cardinality(Resolving(runs[r])) < 2
         /\ ~Starting(runs'[r]) /\ runs'[r].pc # "aborted" =>
              Len(runs'[r].agents) >= 2]_vars

\* A run given the ids [9, 1], of which only 1 resolves, has aborted: it made
\* no call, the conversation is active and holds no message, and its log
\* holds the creation alone.
StartPreconditionsWitness ==
  \E r \in DOMAIN runs :
    /\ runs[r].pc = "aborted"
    /\ runs[r].ids = <<9, 1>>
    /\ Len(runs[r].agents) = 1
    /\ runs[r].calls = << >>
    /\ Active(runs[r].conv)
    /\ messages[runs[r].conv] = << >>
    /\ Len(events[runs[r].conv]) = 1
\* ------------------------------------------------------------------ C17

\* What holds of a run that an error has ended, whatever the error: the run
\* has neither written the conversation's end nor broadcast END_CONVERSATION,
\* the messages it persisted are in place, each with its two log entries
\* except possibly the last, and the conversation, which nobody else ended,
\* is active.
FailedRunLeaves(r) ==
  LET id == runs[r].conv
      log == events[id]
  IN /\ \A k \in RunEvents(r, events) : log[k].e \in {"persist", "NEW_MESSAGE"}
     /\ Cardinality({k \in RunEvents(r, events) : log[k].e = "persist"}) = Len(RunMessages(r))
     /\ EndRequests(id) = 0 => conversations[id].isActive /\ ~Ended(conversations[id])

\* No step removes or changes a stored message.
NoRollback ==
  \A id \in DOMAIN messages :
    /\ id \in DOMAIN messages'
    /\ Len(messages'[id]) >= Len(messages[id])
    /\ \A k \in DOMAIN messages[id] : messages'[id][k] = messages[id][k]

\* A failed run has stopped for good and touches nothing any more.
Terminal(r) == runs[r].pc = "failed" => runs'[r] = runs[r]

StepLog(r) ==
  IF runs[r].conv \in DOMAIN events
  THEN SelectSeq(events[runs[r].conv], LAMBDA ev : ev.run = r /\ IsMessage(ev))
  ELSE << >>

IsPrefix(s, t) == Len(s) <= Len(t) /\ \A k \in DOMAIN s : s[k] = t[k]

\* The run stands at the load of an agent's history or within the agent's step.
LoadingOrInStep(run) == run.pc = "getMessages" \/ InStep(run)

\* What holds of the runs in every state: a run's messages are persisted and
\* broadcast one after the other; when a history load begins and while the
\* step it opens lasts, every earlier message of the run is persisted and
\* broadcast; the history in use is the conversation's messages in persisted
\* order up to the load, the run's own earlier messages all among them; and a
\* completion call is in flight only when every earlier call of the step has
\* returned with a failure.
SequentialState ==
  \A r \in DOMAIN runs :
    LET run == runs[r]
        steplog == StepLog(r)
    IN /\ \A k \in DOMAIN steplog :
            steplog[k].e = IF k % 2 = 1 THEN "persist" ELSE "NEW_MESSAGE"
       /\ LoadingOrInStep(run) => Len(steplog) = 2 * Len(RunMessages(r))
       /\ InStep(run) =>
            /\ IsPrefix(run.history, messages[run.conv])
            /\ SelectSeq(run.history, LAMBDA msg : msg.run = r) = RunMessages(r)
       /\ CallInFlight(run) => \A k \in DOMAIN run.calls : run.calls[k].outcome # "ok"

\* The step in which run r's history load resolves.
Loads(r) == runs[r].pc = "getMessages" /\ runs'[r].pc = "completion"

\* C18. Within one orchestration run the steps are strictly sequential: at
\* most one completion call of the run is in flight, an agent's message is
\* persisted and broadcast before the next agent's history load begins, and
\* the history an agent's prompt is built from is every message persisted in
\* the conversation before the load, of all agents, in persisted order.
SequentialSteps ==
  /\ []SequentialState
  /\ [][\A r \in DOMAIN runs :
          Loads(r) => runs'[r].history = messages[runs[r].conv] /\ messages' = messages]_vars

\* The completion call for agent 2 in the run's second turn is in flight, and
\* its history is the conversation's four messages: three of the run, by the
\* agents 1, 2, 1, and one generated through the API in between.
SequentialStepsWitness ==
  \E r \in DOMAIN runs :
    /\ runs[r].pc = "completion"
    /\ runs[r].turn = 1 /\ Agent(runs[r]).id = 2
    /\ runs[r].history = messages[runs[r].conv]
    /\ Len(runs[r].history) = 4
    /\ AgentIds(RunMessages(r)) = <<1, 2, 1>>
    /\ \E k \in 2..3 : runs[r].history[k].run = 0
\* ------------------------------------------------------------------ C19

\* The ending write or the END_CONVERSATION broadcast of a run.
IsOwnEnd(ev) == ev.run # 0 /\ ev.e \in {"ended", "END_CONVERSATION"}

\* After a stop point run r persisted and broadcast at most one message.
AtMostOneMore(id, i, r) ==
  /\ Cardinality(After(events[id], i, LAMBDA ev : ev.e = "persist" /\ ev.run = r)) <= 1
  /\ Cardinality(After(events[id], i, LAMBDA ev : ev.e = "NEW_MESSAGE" /\ ev.run = r)) <= 1

\* C19 as stated. After the conversation has been ended externally a run
\* persists and broadcasts at most one further message and neither calls
\* endConversation nor broadcasts END_CONVERSATION itself.
CooperativeCancellation ==
  \A id \in DOMAIN events : \A i \in StopPoints(id) : \A r \in DOMAIN runs :
    /\ AtMostOneMore(id, i, r)
    /\ After(events[id], i, LAMBDA ev : ev.run = r /\ IsOwnEnd(ev)) = {}

\* What the log shows in every state: after a stop a run persists and
\* broadcasts at most one further message; a run that ends the conversation
\* itself after a stop had passed its last liveness check before the stop and
\* adds no message after it; a run stopped at a liveness check has neither
\* called endConversation nor broadcast END_CONVERSATION.
CancellationLog ==
  /\ \A id \in DOMAIN events : \A i \in StopPoints(id) : \A r \in DOMAIN runs :
       /\ AtMostOneMore(id, i, r)
       /\ After(events[id], i, LAMBDA ev : ev.run = r /\ IsOwnEnd(ev)) # {} =>
            After(events[id], i, LAMBDA ev : ev.run = r /\ IsMessage(ev)) = {}
  /\ \A r \in DOMAIN runs :
       runs[r].pc = "stopped" =>
         \A k \in RunEvents(r, events) : ~IsOwnEnd(events[runs[r].conv][k])

\* What every step does: a run stops at a liveness check, exactly when the
\* check finds the conversation missing or not active, and nowhere else; a
\* step that ends a conversation leaves every run where it is, a call in
\* flight included, and the call's return moves the run on within its step;
\* a stopped run does nothing any more.
CancellationSteps ==
  \A r \in DOMAIN runs :
    /\ (runs[r].pc \in {"turnCheck", "liveCheck"} /\ runs'[r] # runs[r]) =>
         (runs'[r].pc = "stopped" <=> ~Active(runs[r].conv))
    /\ (runs'[r].pc = "stopped" /\ runs[r].pc # "stopped") =>
         runs[r].pc \in {"turnCheck", "liveCheck"}
    /\ (Active(runs[r].conv) /\ ~conversations'[runs[r].conv].isActive /\ runs[r].pc # "endConversation")
         => runs'[r] = runs[r]
    /\ (CallInFlight(runs[r]) /\ runs'[r] # runs[r]) =>
         CallInFlight(runs'[r]) \/ runs'[r].pc \in {"createMessage", "failed"}
    /\ runs[r].pc = "stopped" => runs'[r] = runs[r] /\ RunEvents(r, events') = RunEvents(r, events)

\* C19 as amended. Cooperative cancellation: a force stop does not interrupt
\* a completion call in flight and takes effect only at the run's next
\* liveness check; after the conversation has been ended externally a run
\* persists and broadcasts at most one further message and, stopped at that
\* check, ends without calling endConversation or broadcasting
\* END_CONVERSATION; only a run that had passed its last liveness check when
\* the stop came goes on to call endConversation and broadcast
\* END_CONVERSATION itself.
CooperativeCancellationNextCheck ==
  /\ []CancellationLog
  /\ [][CancellationSteps]_vars

\* The end request came while a completion call of the run was in flight:
\* the call returned, its message was persisted and broadcast, and the run
\* stopped at the liveness check after it, ending nothing itself.
CooperativeCancellationWitness ==
  \E id \in DOMAIN events : \E i \in StopPoints(id) : \E r \in DOMAIN runs :
    /\ events[id][i].pcs = {"completion"}
    /\ runs[r].conv = id
    /\ runs[r].pc = "stopped"
    /\ Cardinality(After(events[id], i, LAMBDA ev : ev.e = "persist" /\ ev.run = r)) = 1
    /\ Cardinality(After(events[id], i, LAMBDA ev : ev.e = "NEW_MESSAGE" /\ ev.run = r)) = 1
    /\ \A k \in RunEvents(r, events) : ~IsOwnEnd(events[id][k])
\* ------------------------------------------------------------------ C21

\* No registry entry holds socket s.
Untracked(s) == \A k \in DOMAIN connectedClients : connectedClients[k] # s

\* An open connection has its heartbeat timer, a closed one has none.
HeartbeatTimers ==
  \A s \in DOMAIN sockets :
    /\ sockets[s].readyState = "OPEN" => sockets[s].pingInterval
    /\ sockets[s].readyState = "CLOSED" => ~sockets[s].pingInterval

\* What the ticks and the error handler do: a ping is sent, or throws, on an
\* OPEN socket whose timer is set, and a ping that throws has the socket
\* terminated; a timer comes to its end with the close event or at a tick that
\* finds the socket not OPEN, and that tick leaves no registry entry under the
\* socket's clientId; the error handler leaves the connection's state, its
\* timer and the registry as they are.
HeartbeatSteps ==
  \A s \in DOMAIN sockets :
    /\ (sockets'[s].pings # sockets[s].pings \/ sockets'[s].pingFailed # sockets[s].pingFailed) =>
         /\ sockets[s].readyState = "OPEN" /\ sockets[s].pingInterval
         /\ sockets'[s].pingFailed => sockets'[s].terminated /\ sockets'[s].readyState = "CLOSING"
         /\ ~sockets'[s].pingFailed => sockets'[s].readyState = "OPEN"
    /\ (sockets[s].pingInterval /\ ~sockets'[s].pingInterval /\ sockets'[s].readyState # "CLOSED") =>
         /\ sockets[s].readyState # "OPEN"
         /\ ClientId(sockets[s]) \notin DOMAIN connectedClients'
    /\ sockets'[s].errors # sockets[s].errors =>
         /\ sockets'[s].readyState = sockets[s].readyState
         /\ sockets'[s].pingInterval = sockets[s].pingInterval
         /\ connectedClients' = connectedClients
         /\ sockets[s].readyState = "OPEN" <=> Len(sockets'[s].sent) = Len(sockets[s].sent) + 1

\* Socket s exists and satisfies P.
Is(s, P(_)) == IF s \in DOMAIN sockets THEN P(sockets[s]) ELSE FALSE

ClosedUntracked(s) == Is(s, LAMBDA socket : socket.readyState = "CLOSED") /\ Untracked(s)

\* A connection whose ping threw comes to be CLOSED and untracked; a
\* connection that is not OPEN comes to be without timer and untracked.
HeartbeatCloses ==
  \A s \in Sockets :
    /\ Is(s, LAMBDA socket : socket.pingFailed) ~> ClosedUntracked(s)
    /\ Is(s, LAMBDA socket : socket.readyState # "OPEN")
         ~> (Is(s, LAMBDA socket : ~socket.pingInterval) /\ Untracked(s))

\* A connection on which an error event was emitted comes to be CLOSED and
\* untracked.
ErrorCloses ==
  \A s \in Sockets : Is(s, LAMBDA socket : socket.errors > 0) ~> ClosedUntracked(s)

Swept ==
  \E s \in DOMAIN sockets :
    /\ sockets'[s].terminated /\ ~sockets[s].terminated
    /\ sockets'[s].pingFailed = sockets[s].pingFailed

\* C22. Periodic sweep: a sweep terminates every connection that is not OPEN,
\* those the registry holds included, and leaves the open ones alone; so a
\* connection that left OPEN and whose close event does not come is in the
\* end terminated, CLOSED and without registry entry.
PeriodicSweep ==
  /\ [][Swept =>
          /\ \A k \in DOMAIN connectedClients :
               sockets[connectedClients[k]].readyState # "OPEN" =>
                 sockets'[connectedClients[k]].terminated
          /\ \A s \in DOMAIN sockets :
               /\ sockets[s].readyState = "CLOSING" => sockets'[s].terminated
               /\ sockets[s].readyState = "OPEN" => sockets'[s] = sockets[s]
          /\ connectedClients' = connectedClients]_vars
  /\ \A s \in Sockets :
       Is(s, LAMBDA socket : socket.readyState # "OPEN")
         ~> (Is(s, LAMBDA socket : socket.terminated \/ socket.readyState = "CLOSED")
               /\ ClosedUntracked(s))

\* A connection that was closing, with its registry entry, was terminated by
\* a sweep and is CLOSED and untracked.
PeriodicSweepWitness ==
  \E s \in DOMAIN sockets :
    /\ sockets[s].terminated /\ ~sockets[s].pingFailed
    /\ sockets[s].readyState = "CLOSED" /\ Untracked(s)
    /\ sockets[s].pingInterval = FALSE
\* ------------------------------------------------------------------ C23

\* The runs on conversation id.
RunsOn(id) == {r \in DOMAIN runs : runs[r].conv = id}

\* Every message is in the conversation of the run that persisted it, each
\* conversation's messages follow the order of its run's agents, and the
\* history a run built its prompt from is a beginning of its own
\* conversation's messages.
IsolatedState ==
  /\ \A id \in DOMAIN messages : \A k \in DOMAIN messages[id] :
       /\ messages[id][k].run \in RunsOn(id)
       /\ LET run == runs[messages[id][k].run]
          IN messages[id][k].agentPersonalityId =
               run.agents[((k - 1) % Len(run.agents)) + 1].id
  /\ \A r \in DOMAIN runs :
       /\ IsPrefix(runs[r].history, messages[runs[r].conv])
       /\ \A k \in DOMAIN runs[r].history : runs[r].history[k].run = r
       /\ runs[r].pc = "done" => Len(messages[runs[r].conv]) = 2 * runs[r].turnCount

\* A run is aborted or stopped only when its own conversation is not active,
\* and a step that ends a conversation or persists into it changes neither
\* another conversation's row, messages or log nor any run on another
\* conversation.
IsolatedSteps ==
  /\ \A r \in DOMAIN runs :
       (runs'[r].pc \in {"aborted", "stopped"} /\ runs[r].pc # runs'[r].pc) =>
         ~Active(runs[r].conv)
  /\ \A id \in DOMAIN conversations :
       (conversations'[id] # conversations[id] \/ messages'[id] # messages[id]
          \/ events'[id] # events[id]) =>
         /\ \A other \in DOMAIN conversations \ {id} :
              /\ conversations'[other] = conversations[other]
              /\ messages'[other] = messages[other]
              /\ events'[other] = events[other]
         /\ \A r \in DOMAIN runs \ RunsOn(id) : runs'[r] = runs[r]

\* C23. Runs on different conversations are isolated under any interleaving:
\* each persists its messages only into its own conversation, keeps its own
\* turn order and builds its prompts from messages of its own conversation
\* only, and stopping or completing one conversation never aborts the run of
\* another.
RunsIsolated ==
  /\ []IsolatedState
  /\ [][IsolatedSteps]_vars

\* Conversation 1 was ended while both runs were under way: its run is
\* stopped after one message, the run of conversation 2 went through both its
\* turns, in the order of its own agents.
RunsIsolatedWitness ==
  /\ DOMAIN runs = {1, 2}
  /\ runs[1].conv # runs[2].conv
  /\ \E x, y \in DOMAIN runs :
       /\ runs[x].conv = 1 /\ runs[x].pc = "stopped" /\ Len(messages[1]) = 1
       /\ runs[y].conv = 2 /\ runs[y].pc = "done" /\ runs[y].turnCount = 2
       /\ AgentIds(messages[2]) = <<2, 1, 2, 1>>
       /\ Len(runs[y].history) = 3
\* ------------------------------------------------------------------ C24

\* Run r has been launched and has not come to its end.
InProgress(r) == runs[r].pc \notin {"aborted", "stopped", "failed", "done", "killed"}

\* The step handles a start request that reaches the limiter.
StartDecided ==
  /\ Len(decisions') = Len(decisions) + 1
  /\ decisions'[Len(decisions')].endpoint = "orchestrate"

\* C24. No mutual exclusion of runs per conversation: a start request of the
\* owner for an existing conversation launches a run exactly when the limiter
\* lets it through, whether or not a run on the conversation is in progress;
\* and a launched run goes on to load its agents exactly when it finds the
\* conversation active, whatever other runs do.
NoMutualExclusion ==
  [][/\ StartDecided =>
          LET d == decisions'[Len(decisions')]
              id == lastResponse'.target
          IN IF d.allowed /\ HasConversation(id) /\ ~ForeignConversation(id, lastResponse'.user)
             THEN /\ Len(runs') = Len(runs) + 1
                  /\ runs'[Len(runs')].conv = id
                  /\ runs'[Len(runs')].pc = "getConversation"
                  /\ lastResponse'.status = 200
             ELSE runs' = runs /\ lastResponse'.status # 200
     /\ \A r \in DOMAIN runs :
          (runs[r].pc = "getConversation" /\ runs'[r] # runs[r]) =>
            (runs'[r].pc = "getAgentPersonality" <=> Active(runs[r].conv))]_vars

\* Two runs over the agents [1, 2] are in progress on one conversation, the
\* second started while the first was in its first agent step; their messages
\* alternate in the history, which reads 1, 1, 2, 2.
NoMutualExclusionWitness ==
  /\ Len(runs) = 2
  /\ runs[1].conv = runs[2].conv
  /\ InProgress(1) /\ InProgress(2)
  /\ LET ms == messages[runs[1].conv]
     IN /\ AgentIds(ms) = <<1, 1, 2, 2>>
        /\ [k \in DOMAIN ms |-> ms[k].run] = <<1, 2, 1, 2>>
\* ------------------------------------------------------------------ C25

\* The message events of conversation id's log, in order.
MessageEvents(id) == SelectSeq(events[id], IsMessage)

\* No two message creations of the conversation overlapped: in the log every
\* INSERT is followed at once by the broadcast that follows the same
\* creation's turn update.
NoOverlap(id) ==
  LET log == MessageEvents(id)
  IN \A k \in DOMAIN log :
       log[k].e = "persist" /\ k < Len(log) =>
         /\ log[k + 1].e = "NEW_MESSAGE"
         /\ log[k + 1].run = log[k].run

\* Creations of messages of conversation id that are complete.
Created(id) == Cardinality({k \in DOMAIN events[id] : events[id][k].e = "NEW_MESSAGE"})

\* The counter never exceeds the number of messages; while creations have not
\* overlapped it is the number of messages whose creation is complete.
TurnCounterState ==
  \A id \in DOMAIN conversations :
    /\ conversations[id].currentTurn <= Len(messages[id])
    /\ Created(id) <= Len(messages[id])
    /\ NoOverlap(id) => conversations[id].currentTurn = Created(id)

\* The increment is a read and a later write: the write of a run stores the
\* value it read plus one, whatever the counter has become meanwhile; nothing
\* but the completion of a creation changes the counter, and no step lowers
\* the number of messages.
TurnCounterSteps ==
  /\ \A r \in DOMAIN runs :
       /\ (runs[r].pc = "updateConversationTurn" /\ runs'[r] # runs[r]) =>
            /\ runs'[r].readTurn = conversations[runs[r].conv].currentTurn
            /\ conversations' = conversations
       /\ (runs[r].pc = "writeTurn" /\ runs'[r] # runs[r]) =>
            conversations'[runs[r].conv].currentTurn = runs[r].readTurn + 1
  /\ \A id \in DOMAIN conversations :
       /\ conversations'[id].currentTurn # conversations[id].currentTurn =>
            Created(id)' = Created(id) + 1
       /\ Len(messages'[id]) >= Len(messages[id])

Slots(limits, ip) == Len(Requests(limits, ip))

\* The step handled a request to endpoint.
Handled(endpoint) ==
  /\ lastResponse'.endpoint = endpoint
  /\ lastResponse' # lastResponse \/ decisions' # decisions

LimitsOf(endpoint) ==
  IF endpoint = "orchestrate" THEN orchestrationRateLimits ELSE insightRateLimits

NextLimitsOf(endpoint) ==
  IF endpoint = "orchestrate" THEN orchestrationRateLimits' ELSE insightRateLimits'

Other(endpoint) == IF endpoint = "orchestrate" THEN "insights" ELSE "orchestrate"

\* The requests of a key the limiter of an endpoint has let through.
LetThrough(endpoint, ip) ==
  Cardinality({k \in DOMAIN decisions :
                 decisions[k].endpoint = endpoint /\ decisions[k].ip = ip /\ decisions[k].allowed})

\* C27. A refused request leaves the limiter's state unchanged: both maps are
\* after it what they were before, so that it cannot move the time at which
\* its key is allowed again; a request that is let through changes the list
\* of its own key in the map of its own endpoint and nothing else, so that
\* the outcome for another key or on the other endpoint stays what it was;
\* a key's list never holds more times than requests of the key were let
\* through.
RefusedLeavesLimiter ==
  /\ [](\A endpoint \in {"orchestrate", "insights"}, ip \in IPs :
          Slots(LimitsOf(endpoint), ip) <= LetThrough(endpoint, ip))
  /\ [][Len(decisions') = Len(decisions) + 1 =>
          LET d == decisions'[Len(decisions')]
          IN /\ ~d.allowed =>
                  /\ orchestrationRateLimits' = orchestrationRateLimits
                  /\ insightRateLimits' = insightRateLimits
             /\ NextLimitsOf(Other(d.endpoint)) = LimitsOf(Other(d.endpoint))
             /\ \A ip \in IPs \ {d.ip} :
                  /\ Requests(NextLimitsOf(d.endpoint), ip) = Requests(LimitsOf(d.endpoint), ip)
                  /\ Limited(NextLimitsOf(d.endpoint), ip, Window(d.endpoint))
                       <=> Limited(LimitsOf(d.endpoint), ip, Window(d.endpoint))
             /\ \A ip \in IPs :
                  Limited(NextLimitsOf(Other(d.endpoint)), ip, Window(Other(d.endpoint)))
                    <=> Limited(LimitsOf(Other(d.endpoint)), ip, Window(Other(d.endpoint)))]_vars

\* At one instant: a start request of ip1 is refused, then a start request of
\* ip2 and an insights request of ip1 are let through; and ip1's list of the
\* start limiter is still the three times recorded before the refusal.
RefusedLeavesLimiterWitness ==
  \E i, j, k \in DOMAIN decisions :
    /\ i < j /\ i < k
    /\ decisions[i].endpoint = "orchestrate" /\ decisions[i].ip = "ip1" /\ ~decisions[i].allowed
    /\ decisions[j].endpoint = "orchestrate" /\ decisions[j].ip = "ip2" /\ decisions[j].allowed
    /\ decisions[k].endpoint = "insights" /\ decisions[k].ip = "ip1" /\ decisions[k].allowed
    /\ decisions[j].at = decisions[i].at /\ decisions[k].at = decisions[i].at
    /\ now = decisions[i].at
    /\ Slots(orchestrationRateLimits, "ip1") = RateCap
\* ------------------------------------------------------------------ C28

\* C28. Ending is terminal: a conversation whose isActive flag is false keeps
\* it false and keeps the status 'completed' whatever is requested next; a
\* run that finds its conversation ended when it starts is aborted, and an
\* aborted run has persisted nothing, broadcast nothing and does nothing
\* any more.
EndingIsTerminal ==
  /\ [](\A r \in DOMAIN runs :
          runs[r].pc = "aborted" =>
            /\ RunMessages(r) = << >>
            /\ HasConversation(runs[r].conv) => RunEvents(r, events) = {})
  /\ [][/\ \A id \in DOMAIN conversations :
            ~conversations[id].isActive =>
              /\ ~conversations'[id].isActive
              /\ conversations[id].status = "completed"
              /\ conversations'[id].status = "completed"
              /\ conversations'[id].endedAt # NullTime
        /\ \A r \in DOMAIN runs :
             /\ (runs[r].pc = "getConversation" /\ runs'[r] # runs[r] /\ ~Active(runs[r].conv)) =>
                  runs'[r].pc = "aborted"
             /\ runs[r].pc = "aborted" => runs'[r] = runs[r]]_vars

\* The conversation was ended with one message in it, generated on request;
\* after that a start request was accepted, its run was aborted, another end
\* request and an insights request were served, and the conversation is as
\* the first end left it.
EndingIsTerminalWitness ==
  \E id \in DOMAIN conversations : \E r \in DOMAIN runs :
    /\ runs[r].conv = id /\ runs[r].pc = "aborted"
    /\ ~conversations[id].isActive /\ conversations[id].status = "completed"
    /\ EndRequests(id) = 2
    /\ Len(messages[id]) = 1
    /\ lastResponse.endpoint = "insights" /\ lastResponse.status = 200
    /\ events[id][Len(events[id])].e = "END_CONVERSATION"

\* ---------------------------------------------------------------------------
\* C29: client reconnection is bounded. A reconnect timer is set only by a
\* close event that finds fewer than maxReconnectAttempts attempts counted;
\* the step counts one more attempt, and the timer's delay is 3,000 ms for
\* the first attempt and 6,000 ms for any later one. The count goes back to 0
\* only in a step that opens a socket. connect() runs only at the mount or
\* from a pending timer. A client whose fifth consecutive attempt has closed
\* without opening does nothing more: no timer, no socket, no connect().
GaveUp(client) ==
  /\ client.mounted /\ client.reconnectAttempts = maxReconnectAttempts
  /\ ~client.reconnectTimeout /\ ~client.connecting /\ client.ws = 0

Connects(a, b) == (b.connecting /\ ~a.connecting) \/ (b.ws # 0 /\ a.ws = 0)

BoundedReconnectSteps ==
  [][\A c \in Clients :
       LET a == clients[c]
           b == clients'[c]
       IN /\ (b.reconnectTimeout /\ ~a.reconnectTimeout)
               => /\ a.connecting \/ a.ws # 0
                  /\ b.ws = 0 /\ ~b.connecting
                  /\ a.reconnectAttempts < 5
                  /\ b.reconnectAttempts = a.reconnectAttempts + 1
                  /\ b.delay = IF b.reconnectAttempts = 1 THEN 3000 ELSE 6000
          /\ (b.reconnectAttempts # a.reconnectAttempts)
               => \/ /\ b.reconnectAttempts = 0
                     /\ b.ws = Len(sockets) + 1
                     /\ Len(sockets') = Len(sockets) + 1
                     /\ sockets'[b.ws].readyState = "OPEN"
                  \/ /\ b.reconnectAttempts = a.reconnectAttempts + 1
                     /\ b.reconnectTimeout /\ ~a.reconnectTimeout
          /\ ((a.connecting \/ a.ws # 0) /\ b.ws = 0 /\ ~b.connecting
                /\ a.reconnectAttempts < 5)
               => b.reconnectTimeout
          /\ Connects(a, b) => (a.reconnectTimeout \/ ~a.mounted)
          /\ GaveUp(a) => (b = a /\ Len(sockets') = Len(sockets))]_vars

TornDown(client) ==
  client.cleaned => (~client.reconnectTimeout /\ ~client.keepAliveInterval)

Teardown ==
  /\ [](\A c \in Clients : TornDown(clients[c]))
  /\ [][\A c \in Clients :
          clients[c].cleaned => ~Connects(clients[c], clients'[c])]_vars

====
